---- MODULE Spec2Model ----
(***************************************************************************)
(* A model of libbitcoin-network's channel proxy (proxy.cpp) and of the    *)
(* peer session manager (p2p.cpp).                                         *)
(*                                                                         *)
(* Every process (a caller thread, or a read cycle whose completion        *)
(* handlers run on the thread pool) advances one access to shared state    *)
(* at a time: a read or write of the atomic stopped_ flag, a subscriber    *)
(* call, a lock of mutex_, a socket call.                                  *)
(***************************************************************************)
EXTENDS Naturals, Integers, Sequences, FiniteSets

\* ------------------------------------------------------------------------
\* Bounds of the model.
\* ------------------------------------------------------------------------

\* In how many pieces the socket takes a message at most.
MaxPieces == 2

\* How many frames the peer puts on the socket.
MaxFrames == 2

\* How many stop calls the manager's owner makes.
MaxStops == 3

\* ------------------------------------------------------------------------
\* Program constants.
\* ------------------------------------------------------------------------

max_payload_size == 10 * 1024 * 1024

\* The network magic the channel was constructed with, and a foreign one.
magic_ == 1
OtherMagic == magic_ + 1

\* ------------------------------------------------------------------------
\* Processes and inputs.
\* ------------------------------------------------------------------------

\* Threads calling the channel's public interface.  The channel is started
\* by the session that owns it, from one thread.
Threads == {1, 2}

\* Read cycles: one is begun by each read_heading call of proxy::start and
\* lives while it has a read outstanding or a completion handler running.
\* A thread calls start once, so there are never more than two.
Chains == {11, 12}

Procs == Threads \cup Chains

NoOwner == 0

\* Codes passed to stop by the channel's owners (sessions, protocols).
StopCodes == {"channel_timeout", "service_stopped"}
StopCode(t) == IF t = 1 THEN "channel_timeout" ELSE "service_stopped"

\* Handlers given to subscribe_stop and to subscribe<Message>.
StopHandlers == {"sh1"}
MessageHandlers == {"mh1"}

\* Messages handed to send.
Messages == {"ma", "mb"}

\* Payload sizes a heading can announce: the guard and one more.
PayloadSizes == {max_payload_size, max_payload_size + 1}

\* Payloads on the wire and their checksum as the heading carries it.
Payloads == {10, 11}

bitcoin_checksum(payload) == (payload * 7 + 3) % 5

\* The checksum a heading carries is that of the payload the peer meant to
\* send (10); the payload that arrives is that one or a corrupted one.

NoHead == [parsed |-> FALSE, magic |-> 0, payload_size |-> 0, checksum |-> 0]

Heading(m, n) ==
    [parsed |-> TRUE, magic |-> m, payload_size |-> n,
     checksum |-> bitcoin_checksum(10)]

\* What heading::from_data can yield from 24 bytes of the stream: nothing,
\* a heading of another network, and headings of this network with payload
\* sizes around the guard.
Headings ==
    {NoHead, Heading(OtherMagic, 0)} \cup {Heading(magic_, n) : n \in PayloadSizes}

NoWrite == [st |-> "none", left |-> 0]

\* Start sequences of the manager: one is begun by each start call and lives
\* until its handler has been called.
StartChains == {21, 22}

\* Run sequences of the manager: one is begun by each run call.
RunChains == {31}

\* Calls of store, made by the sessions for the channels they have
\* connected or accepted; each lives until handle_new_connection returns.
StoreCalls == {41, 42}

P2PProcs == Threads \cup StartChains \cup RunChains \cup StoreCalls

\* The channels the sessions hand to store and remove, the remote endpoint
\* (authority) of each and what its notify() returns: k1 and k2 are
\* connected to the same peer, and only k1 and k3 ask for a notification.
ManagedChannels == {"k1", "k2", "k3"}
Authority(k) == IF k = "k3" THEN "peerB" ELSE "peerA"
ChannelNotify(k) == k # "k2"

\* The host a manual connect names.
Hosts == {"hostA"}

\* Handlers given to subscribe_connections.
ConnectHandlers == {"ch1"}

\* What hosts_.load and hosts_.save can return.
HostsCodes == {"success", "file_system"}

\* What the start of a session can complete with.
SessionCodes == {"success", "operation_failed"}

\* What a message handler is invoked with: a code and, with success, the
\* message (here the number of the frame that carried it).
Delivery(e, f) == [code |-> e, frame |-> f]

VARIABLES
    \* proxy members
    stopped_,            \* std::atomic<bool>
    mutex_,              \* owner of the socket mutex, or NoOwner
    socket_,             \* [closed, wq, wire]: the socket and its write queue
    message_subscriber_, \* [stopped, subs]
    stop_subscriber_,    \* [stopped, subs]
    \* processes
    pc,                  \* position of every process
    code,                \* argument of the stop call a process is in
    ret,                 \* where a process continues when its stop returns
    msg,                 \* message of the send a thread is in
    ec,                  \* boost_code a read completed with (per chain)
    head,                \* heading a chain has parsed
    frame,               \* number of the frame a chain is reading
    payload,             \* payload bytes read (per chain)
    parse_error,         \* what message_subscriber_.load returned (per chain)
    \* the peer
    nextFrame,           \* frames that have begun to arrive
    \* calls made so far and what the user's callbacks were given
    started,             \* per thread: it has called start
    startResult,         \* per thread: code given to its last start handler
    sendResult,          \* per message: code given to its send handler
    writes,              \* per message: its async_write, [st, left]
    stopNotified,        \* per stop handler: codes it was invoked with
    delivered,           \* per message handler: what it was invoked with
    \* what has happened so far, for the properties:
    \*   stopReturned  a call of stop has returned since the last start
    \*   lateSend      a send invoked after that reached the socket
    \*   lateDelivery  a message was published after that
    \*   stoppedOnce   stopped_ has gone from false to true
    \*   broadcasts    how often stop broadcast channel_stopped
    \*   relays        the codes stop relayed to the stop subscribers
    \*   reg           per stop handler: how its registration was answered
    \*   sendOrder     messages in the order their sends took the mutex
    hist,
    \* p2p members
    p2p_stopped_,        \* std::atomic<bool> stopped_ of p2p
    subscriber_,         \* [stopped, subs]: the connection subscribers
    manual_,             \* the manual session reference, or "nullptr"
    hosts_,              \* [loads, saves]: how often the store was read, written
    connections_,        \* [stopped, channels]: the connections set
    threadpool_,         \* "joined", "spawned" or "shutdown"
    sessions,            \* the sessions attached so far
    \* the manager's processes
    p2p_pc,              \* position of every caller and start sequence
    p2p_ec,              \* the code a process holds (stop's ec, a step's result)
    \* what the manager's callers were given
    p2p_startResult,     \* code given to the last start handler called
    connectNotified,     \* per connection handler: codes it was invoked with
    p2p_runResult,       \* code given to the last run handler called
    p2p_chan,            \* per store call: the channel it was given
    storeResult,         \* per store call: code given to its result handler
    dials,               \* hosts handed to the manual session by connect
    connectResult,       \* code the manager gave to the last connect handler
    removeResult,        \* code given to the last remove handler called
    \* what has happened so far, for the properties:
    \*   stops   stop calls begun
    \*   was     per caller: stopped_ when its stop call began
    \*   saved   per caller: its stop call has saved the hosts, and the result
    \*   log     one record for every stop handler called
    \*   trail   per sequence: the steps completed so far and their results
    \*   handled per sequence: how often its handler has been called
    \*   runs    run has been called
    \*   lateAttach  a session was attached while the manager was stopped
    \*   begun   start calls that passed the guard since stop last set the flag
    \*   dropped a connect on a manager that was not stopped reached no session
    \*   runSaves  saves of the hosts since start last cleared the stopped flag
    p2p_hist

chanVars == <<stopped_, mutex_, socket_, message_subscriber_, stop_subscriber_,
              pc, code, ret, msg, ec, head, frame, payload, parse_error,
              nextFrame,
              started, startResult, sendResult, writes, stopNotified, delivered,
              hist>>

p2pCalls == <<p2p_runResult, p2p_chan, storeResult, dials, connectResult,
              removeResult>>

p2pVars == <<p2p_stopped_, subscriber_, manual_, hosts_, connections_,
             threadpool_, sessions, p2p_pc, p2p_ec, p2p_startResult,
             connectNotified, p2pCalls, p2p_hist>>

vars == <<chanVars, p2pVars>>

ChanInit ==
    /\ stopped_ = TRUE
    /\ mutex_ = NoOwner
    /\ socket_ = [closed |-> FALSE, wq |-> <<>>, wire |-> <<>>]
    /\ message_subscriber_ = [stopped |-> TRUE, subs |-> {}]
    /\ stop_subscriber_ = [stopped |-> TRUE, subs |-> {}]
    /\ pc = [p \in Procs |-> IF p \in Threads THEN "idle" ELSE "none"]
    /\ code = [p \in Procs |-> "success"]
    /\ ret = [p \in Procs |-> "idle"]
    /\ msg = [t \in Threads |-> "none"]
    /\ ec = [c \in Chains |-> "success"]
    /\ head = [c \in Chains |-> NoHead]
    /\ frame = [c \in Chains |-> 0]
    /\ payload = [c \in Chains |-> 0]
    /\ parse_error = [c \in Chains |-> "success"]
    /\ nextFrame = 1
    /\ started = [t \in Threads |-> FALSE]
    /\ startResult = [t \in Threads |-> "none"]
    /\ sendResult = [m \in Messages |-> "none"]
    /\ writes = [m \in Messages |-> NoWrite]
    /\ stopNotified = [h \in StopHandlers |-> <<>>]
    /\ delivered = [h \in MessageHandlers |-> <<>>]
    /\ hist = [stopReturned |-> FALSE, lateSend |-> FALSE,
               lateDelivery |-> FALSE, stoppedOnce |-> FALSE,
               broadcasts |-> 0, relays |-> <<>>,
               reg |-> [h \in StopHandlers |-> "none"],
               sendOrder |-> <<>>]

\* p2p::p2p
P2PInit ==
    /\ p2p_stopped_ = TRUE
    /\ subscriber_ = [stopped |-> TRUE, subs |-> {}]
    /\ manual_ = "nullptr"
    /\ hosts_ = [loads |-> 0, saves |-> 0]
    /\ connections_ = [stopped |-> FALSE, channels |-> {}]
    /\ threadpool_ = "joined"
    /\ sessions = {}
    /\ p2p_pc = [p \in P2PProcs |-> IF p \in Threads THEN "idle" ELSE "none"]
    /\ p2p_ec = [p \in P2PProcs |-> "success"]
    /\ p2p_startResult = "none"
    /\ connectNotified = [h \in ConnectHandlers |-> <<>>]
    /\ p2p_runResult = "none"
    /\ p2p_chan = [s \in StoreCalls |-> "none"]
    /\ storeResult = [s \in StoreCalls |-> "none"]
    /\ dials = {}
    /\ connectResult = "none"
    /\ removeResult = "none"
    /\ p2p_hist = [stops |-> 0,
                   was |-> [t \in Threads |-> FALSE],
                   saved |-> [t \in Threads |-> "none"],
                   log |-> <<>>,
                   trail |-> [c \in StartChains \cup RunChains |-> <<>>],
                   handled |-> [c \in StartChains \cup RunChains |-> 0],
                   runs |-> FALSE,
                   lateAttach |-> FALSE,
                   begun |-> 0,
                   dropped |-> FALSE,
                   runSaves |-> 0]

\* ------------------------------------------------------------------------
\* The subscriber registries (stop_subscriber_, message_subscriber_).
\* ------------------------------------------------------------------------

SubscriberStart(s) == [s EXCEPT !.stopped = FALSE]

SubscriberStop(s) == [s EXCEPT !.stopped = TRUE]

\* subscribe(handler, args): a stopped registry refuses the registration and
\* hands the handler the given args at once.
SubscriberSubscribe(s, h) ==
    IF s.stopped THEN s ELSE [s EXCEPT !.subs = @ \cup {h}]

\* relay(args) of a one-shot registry: every registered handler is invoked
\* once and the registrations are dropped.
Notify(log, subs, arg) ==
    [h \in DOMAIN log |-> IF h \in subs THEN Append(log[h], arg) ELSE log[h]]

Goto(p, l) == pc' = [pc EXCEPT ![p] = l]

Home(p) == IF p \in Threads THEN "idle" ELSE "none"

locals == <<code, ret, msg, ec, head, frame, payload, parse_error>>
shared == <<stopped_, mutex_, socket_, message_subscriber_, stop_subscriber_>>
history == <<started, startResult, sendResult, writes, stopNotified, delivered>>

\* ------------------------------------------------------------------------
\* proxy::start
\* ------------------------------------------------------------------------

\* if (!stopped()) { handler(error::operation_failed); return; }
StartGuard(t) == stopped_

\* A thread calls start(handler): the guard.
proxy_start(t) ==
    /\ pc[t] = "idle"
    /\ ~started[t]
    /\ started' = [started EXCEPT ![t] = TRUE]
    /\ IF StartGuard(t)
       THEN /\ Goto(t, "start_clear")
            /\ hist' = [hist EXCEPT !.stopReturned = FALSE]
            /\ UNCHANGED startResult
       ELSE /\ startResult' = [startResult EXCEPT ![t] = "operation_failed"]
            /\ Goto(t, "idle")
            /\ UNCHANGED hist
    /\ UNCHANGED <<shared, locals, nextFrame, sendResult, writes,
                   stopNotified, delivered>>
    /\ UNCHANGED p2pVars

\* stopped_ = false;
start_clear(t) ==
    /\ pc[t] = "start_clear"
    /\ stopped_' = FALSE
    /\ Goto(t, "start_stop_subscriber")
    /\ UNCHANGED <<mutex_, socket_, message_subscriber_, stop_subscriber_,
                   locals, nextFrame, history>>
    /\ UNCHANGED hist
    /\ UNCHANGED p2pVars

\* stop_subscriber_->start();
start_stop_subscriber(t) ==
    /\ pc[t] = "start_stop_subscriber"
    /\ stop_subscriber_' = SubscriberStart(stop_subscriber_)
    /\ Goto(t, "start_message_subscriber")
    /\ UNCHANGED <<stopped_, mutex_, socket_, message_subscriber_,
                   locals, nextFrame, history>>
    /\ UNCHANGED hist
    /\ UNCHANGED p2pVars

\* start with message_subscriber_.start() left out before the handler is
\* called: the handler runs on a registry that is still stopped.
start_message_subscriber_late(t) ==
    /\ pc[t] = "start_message_subscriber"
    /\ Goto(t, "start_handler")
    /\ UNCHANGED <<shared, locals, nextFrame, history>>
    /\ UNCHANGED hist
    /\ UNCHANGED p2pVars

\* message_subscriber_.start();
start_message_subscriber(t) ==
    /\ pc[t] = "start_message_subscriber"
    /\ message_subscriber_' = SubscriberStart(message_subscriber_)
    /\ Goto(t, "start_handler")
    /\ UNCHANGED <<stopped_, mutex_, socket_, stop_subscriber_,
                   locals, nextFrame, history>>
    /\ UNCHANGED hist
    /\ UNCHANGED p2pVars

\* handler(error::success); then read_heading();
start_handler(t) ==
    /\ pc[t] = "start_handler"
    /\ startResult' = [startResult EXCEPT ![t] = "success"]
    /\ Goto(t, "read_heading")
    /\ UNCHANGED <<shared, locals, nextFrame, started, sendResult, writes,
                   stopNotified, delivered>>
    /\ UNCHANGED hist
    /\ UNCHANGED p2pVars

\* handler(error::success) where the handler subscribes h to the channel's
\* messages before it returns ("Allow for subscription before first read, so
\* no messages are missed."); then read_heading();
start_handler_subscribe(t, h) ==
    /\ pc[t] = "start_handler"
    /\ h \notin message_subscriber_.subs
    /\ delivered[h] = <<>>
    /\ startResult' = [startResult EXCEPT ![t] = "success"]
    /\ message_subscriber_' = SubscriberSubscribe(message_subscriber_, h)
    /\ delivered' =
           IF message_subscriber_.stopped
           THEN [delivered EXCEPT ![h] = Append(@, Delivery("channel_stopped", 0))]
           ELSE delivered
    /\ Goto(t, "read_heading")
    /\ UNCHANGED <<stopped_, mutex_, socket_, stop_subscriber_, locals,
                   nextFrame, started, sendResult, writes, stopNotified>>
    /\ UNCHANGED hist
    /\ UNCHANGED p2pVars

\* ------------------------------------------------------------------------
\* proxy::read_heading, called by start and by handle_read_payload
\* ------------------------------------------------------------------------

\* if (stopped()) return;
read_heading(p) ==
    /\ pc[p] = "read_heading"
    /\ Goto(p, IF stopped_ THEN Home(p) ELSE "read_heading_lock")
    /\ UNCHANGED <<shared, locals, nextFrame, history>>
    /\ UNCHANGED hist
    /\ UNCHANGED p2pVars

\* unique_lock lock(mutex_);
read_heading_lock(p) ==
    /\ pc[p] = "read_heading_lock"
    /\ mutex_ = NoOwner
    /\ mutex_' = p
    /\ Goto(p, "read_heading_read")
    /\ UNCHANGED <<stopped_, socket_, message_subscriber_, stop_subscriber_,
                   locals, nextFrame, history>>
    /\ UNCHANGED hist
    /\ UNCHANGED p2pVars

FreeChain == CHOOSE c \in Chains : pc[c] = "none" /\ \A d \in Chains : pc[d] = "none" => c <= d

\* async_read(*socket_, buffer(heading_buffer_), handle_read_heading); the
\* lock is released on return.  The read cycle the call begins is the
\* caller's own when a completion handler makes it, a new one otherwise.
read_heading_read(p) ==
    /\ pc[p] = "read_heading_read"
    /\ mutex_' = NoOwner
    /\ IF p \in Chains
       THEN Goto(p, "heading_pending")
       ELSE pc' = [pc EXCEPT ![p] = "idle", ![FreeChain] = "heading_pending"]
    /\ UNCHANGED <<stopped_, socket_, message_subscriber_, stop_subscriber_,
                   locals, nextFrame, history>>
    /\ UNCHANGED hist
    /\ UNCHANGED p2pVars

\* ------------------------------------------------------------------------
\* proxy::stop, called by the channel's owners and by the read handlers
\* ------------------------------------------------------------------------

\* A thread calls stop(ec) with an error code.
proxy_stop(t, c) ==
    /\ pc[t] = "idle"
    /\ code' = [code EXCEPT ![t] = c]
    /\ ret' = [ret EXCEPT ![t] = "idle"]
    /\ Goto(t, "stop_check")
    /\ UNCHANGED <<shared, msg, ec, head, frame, payload, parse_error,
                   nextFrame, started, startResult, sendResult, writes,
                   stopNotified, delivered>>
    /\ UNCHANGED hist
    /\ UNCHANGED p2pVars

\* A call of stop returns.  From then on, and until start is called again,
\* the caller may rely on what stop promises.
StopReturns ==
    hist' = [hist EXCEPT !.stopReturned =
                 ~\E t \in Threads : pc[t] = "start_clear"]

\* A process has left stop (or a handler): its locals are dead.
Return(p) ==
    /\ Goto(p, ret[p])
    /\ code' = [code EXCEPT ![p] = "success"]
    /\ ret' = [ret EXCEPT ![p] = Home(p)]

\* if (stopped()) return;
StopGuard(p) == stopped_

stop_check(p) ==
    /\ pc[p] = "stop_check"
    /\ IF StopGuard(p)
       THEN Return(p) /\ StopReturns
       ELSE Goto(p, "stop_set") /\ UNCHANGED <<code, ret, hist>>
    /\ UNCHANGED <<shared, msg, ec, head, frame, payload, parse_error,
                   nextFrame, history>>
    /\ UNCHANGED p2pVars

\* stopped_ = true;
stop_set(p) ==
    /\ pc[p] = "stop_set"
    /\ stopped_' = TRUE
    /\ Goto(p, "stop_message_subscriber")
    /\ hist' = [hist EXCEPT !.stoppedOnce = @ \/ ~stopped_]
    /\ UNCHANGED <<mutex_, socket_, message_subscriber_, stop_subscriber_,
                   locals, nextFrame, history>>
    /\ UNCHANGED p2pVars

\* message_subscriber_.stop();
stop_message_subscriber(p) ==
    /\ pc[p] = "stop_message_subscriber"
    /\ message_subscriber_' = SubscriberStop(message_subscriber_)
    /\ Goto(p, "stop_broadcast")
    /\ UNCHANGED <<stopped_, mutex_, socket_, stop_subscriber_,
                   locals, nextFrame, history>>
    /\ UNCHANGED hist
    /\ UNCHANGED p2pVars

\* message_subscriber_.broadcast(error::channel_stopped);
stop_broadcast(p) ==
    /\ pc[p] = "stop_broadcast"
    /\ delivered' =
           Notify(delivered, message_subscriber_.subs,
                  Delivery("channel_stopped", 0))
    /\ message_subscriber_' = [message_subscriber_ EXCEPT !.subs = {}]
    /\ Goto(p, "stop_stop_subscriber")
    /\ UNCHANGED <<stopped_, mutex_, socket_, stop_subscriber_, locals,
                   nextFrame, started, startResult, sendResult, writes,
                   stopNotified>>
    /\ hist' = [hist EXCEPT !.broadcasts = @ + 1]
    /\ UNCHANGED p2pVars

\* A stop whose critical section begins before the relay.
stop_stop_subscriber_locked(p) ==
    /\ pc[p] = "stop_stop_subscriber"
    /\ mutex_ = NoOwner
    /\ mutex_' = p
    /\ stop_subscriber_' = SubscriberStop(stop_subscriber_)
    /\ Goto(p, "stop_relay")
    /\ UNCHANGED <<stopped_, socket_, message_subscriber_,
                   locals, nextFrame, history>>
    /\ UNCHANGED hist
    /\ UNCHANGED p2pVars

\* stop_subscriber_->stop();
stop_stop_subscriber(p) ==
    /\ pc[p] = "stop_stop_subscriber"
    /\ stop_subscriber_' = SubscriberStop(stop_subscriber_)
    /\ Goto(p, "stop_relay")
    /\ UNCHANGED <<stopped_, mutex_, socket_, message_subscriber_,
                   locals, nextFrame, history>>
    /\ UNCHANGED hist
    /\ UNCHANGED p2pVars

\* A relay that hands the subscribers the broadcast's code instead of ec.
stop_relay_channel_stopped(p) ==
    /\ pc[p] = "stop_relay"
    /\ stopNotified' =
           Notify(stopNotified, stop_subscriber_.subs, "channel_stopped")
    /\ stop_subscriber_' = [stop_subscriber_ EXCEPT !.subs = {}]
    /\ Goto(p, "stop_lock")
    /\ UNCHANGED <<stopped_, mutex_, socket_, message_subscriber_, locals,
                   nextFrame, started, startResult, sendResult, writes,
                   delivered>>
    /\ hist' = [hist EXCEPT !.relays = Append(@, code[p])]
    /\ UNCHANGED p2pVars

\* stop_subscriber_->relay(ec); then handle_stopping();
stop_relay(p) ==
    /\ pc[p] = "stop_relay"
    /\ stopNotified' = Notify(stopNotified, stop_subscriber_.subs, code[p])
    /\ stop_subscriber_' = [stop_subscriber_ EXCEPT !.subs = {}]
    /\ Goto(p, "stop_lock")
    /\ UNCHANGED <<stopped_, mutex_, socket_, message_subscriber_, locals,
                   nextFrame, started, startResult, sendResult, writes,
                   delivered>>
    /\ hist' = [hist EXCEPT !.relays = Append(@, code[p])]
    /\ UNCHANGED p2pVars

\* unique_lock lock(mutex_);
stop_lock(p) ==
    /\ pc[p] = "stop_lock"
    /\ mutex_ = NoOwner
    /\ mutex_' = p
    /\ Goto(p, "stop_close")
    /\ UNCHANGED <<stopped_, socket_, message_subscriber_, stop_subscriber_,
                   locals, nextFrame, history>>
    /\ UNCHANGED hist
    /\ UNCHANGED p2pVars

\* socket->cancel: every outstanding read finishes at once and its handler
\* is queued with operation_aborted.
Cancelled(l) ==
    IF l = "heading_pending" THEN "handle_read_heading"
    ELSE IF l = "payload_pending" THEN "handle_read_payload"
    ELSE l

Outstanding(c) == pc[c] \in {"heading_pending", "payload_pending"}

\* proxy::close(socket_): shutdown both directions and cancel; the lock is
\* released on return.
stop_close(p) ==
    /\ pc[p] = "stop_close"
    /\ socket_' = [socket_ EXCEPT !.closed = TRUE]
    /\ mutex_' = NoOwner
    /\ pc' = [q \in Procs |-> IF q = p THEN ret[p] ELSE Cancelled(pc[q])]
    /\ ec' = [c \in Chains |-> IF Outstanding(c) THEN "boost_error" ELSE ec[c]]
    /\ code' = [code EXCEPT ![p] = "success"]
    /\ ret' = [ret EXCEPT ![p] = Home(p)]
    /\ StopReturns
    /\ UNCHANGED <<stopped_, message_subscriber_, stop_subscriber_,
                   msg, head, frame, payload, parse_error,
                   nextFrame, history>>
    /\ UNCHANGED p2pVars

\* ------------------------------------------------------------------------
\* proxy::subscribe_stop and proxy::subscribe<Message>
\* ------------------------------------------------------------------------

\* stop_subscriber_->subscribe(handler, error::channel_stopped);
subscribe_stop(t, h) ==
    /\ pc[t] = "idle"
    /\ h \notin stop_subscriber_.subs
    /\ stopNotified[h] = <<>>
    /\ stop_subscriber_' = SubscriberSubscribe(stop_subscriber_, h)
    /\ stopNotified' =
           IF stop_subscriber_.stopped
           THEN [stopNotified EXCEPT ![h] = Append(@, "channel_stopped")]
           ELSE stopNotified
    /\ UNCHANGED <<stopped_, mutex_, socket_, message_subscriber_, pc, locals,
                   nextFrame, started, startResult, sendResult, writes,
                   delivered>>
    /\ hist' = [hist EXCEPT !.reg[h] =
                    IF stop_subscriber_.stopped THEN "refused" ELSE "accepted"]
    /\ UNCHANGED p2pVars

\* message_subscriber_.subscribe<Message>(handler);
subscribe(t, h) ==
    /\ pc[t] = "idle"
    /\ h \notin message_subscriber_.subs
    /\ delivered[h] = <<>>
    /\ message_subscriber_' = SubscriberSubscribe(message_subscriber_, h)
    /\ delivered' =
           IF message_subscriber_.stopped
           THEN [delivered EXCEPT ![h] = Append(@, Delivery("channel_stopped", 0))]
           ELSE delivered
    /\ UNCHANGED <<stopped_, mutex_, socket_, stop_subscriber_, pc, locals,
                   nextFrame, started, startResult, sendResult, writes,
                   stopNotified>>
    /\ UNCHANGED hist
    /\ UNCHANGED p2pVars

\* ------------------------------------------------------------------------
\* The read cycle: handle_read_heading, read_payload, handle_read_payload
\* ------------------------------------------------------------------------

\* A chain's handler has returned: its locals are dead.
ChainLocalsReset(c) ==
    /\ ec' = [ec EXCEPT ![c] = "success"]
    /\ head' = [head EXCEPT ![c] = NoHead]
    /\ frame' = [frame EXCEPT ![c] = 0]
    /\ payload' = [payload EXCEPT ![c] = 0]
    /\ parse_error' = [parse_error EXCEPT ![c] = "success"]

\* The handler returns without a further read: the read cycle is over.
ChainEnd(c) ==
    /\ Goto(c, "none")
    /\ ChainLocalsReset(c)
    /\ UNCHANGED <<code, ret>>

\* The handler calls stop(e) and then continues at l.
CallStop(c, e, l) ==
    /\ Goto(c, "stop_check")
    /\ code' = [code EXCEPT ![c] = e]
    /\ ret' = [ret EXCEPT ![c] = l]

\* The socket completes the heading read: aborted once the socket is closed,
\* otherwise a transport failure or the next 24 bytes of the stream.
read_heading_complete(c) ==
    /\ pc[c] = "heading_pending"
    /\ \/ /\ ec' = [ec EXCEPT ![c] = "boost_error"]
          /\ UNCHANGED <<head, frame, nextFrame>>
       \/ /\ ~socket_.closed
          /\ nextFrame <= MaxFrames
          /\ \E h \in Headings : head' = [head EXCEPT ![c] = h]
          /\ frame' = [frame EXCEPT ![c] = nextFrame]
          /\ nextFrame' = nextFrame + 1
          /\ UNCHANGED ec
    /\ Goto(c, "handle_read_heading")
    /\ UNCHANGED <<shared, code, ret, msg, payload, parse_error, history>>
    /\ UNCHANGED hist
    /\ UNCHANGED p2pVars

\* A guard that turns away a payload of exactly max_payload_size.
HeadingAccepted_exclusive(h) ==
    /\ h.parsed
    /\ h.magic = magic_
    /\ ~(h.payload_size >= max_payload_size)

\* !parsed || head.magic != magic_  and  head.payload_size > max_payload_size
HeadingAccepted(h) ==
    /\ h.parsed
    /\ h.magic = magic_
    /\ ~(h.payload_size > max_payload_size)

\* handle_read_heading without its test of stopped(): the handler of a
\* cancelled read treats the abort like any other read failure.
handle_read_heading_unchecked(c) ==
    /\ pc[c] = "handle_read_heading"
    /\ IF ec[c] # "success"
       THEN /\ CallStop(c, ec[c], "none")
            /\ ChainLocalsReset(c)
       ELSE IF ~HeadingAccepted(head[c])
       THEN /\ CallStop(c, "bad_stream", "none")
            /\ ChainLocalsReset(c)
       ELSE /\ Goto(c, "read_payload")
            /\ UNCHANGED <<code, ret, ec, head, frame, payload, parse_error>>
    /\ UNCHANGED <<shared, msg, nextFrame, history>>
    /\ UNCHANGED hist
    /\ UNCHANGED p2pVars

\* proxy::handle_read_heading up to its call of stop or read_payload.
handle_read_heading(c) ==
    /\ pc[c] = "handle_read_heading"
    /\ IF stopped_
       THEN ChainEnd(c)
       ELSE IF ec[c] # "success"
       THEN /\ CallStop(c, ec[c], "none")
            /\ ChainLocalsReset(c)
       ELSE IF ~HeadingAccepted(head[c])
       THEN /\ CallStop(c, "bad_stream", "none")
            /\ ChainLocalsReset(c)
       ELSE /\ Goto(c, "read_payload")
            /\ UNCHANGED <<code, ret, ec, head, frame, payload, parse_error>>
    /\ UNCHANGED <<shared, msg, nextFrame, history>>
    /\ UNCHANGED hist
    /\ UNCHANGED p2pVars

\* A read_payload that begins the next heading read as well, without
\* waiting for the payload.
read_payload_pipelined(c) ==
    /\ pc[c] = "read_payload"
    /\ IF stopped_
       THEN ChainEnd(c)
       ELSE /\ pc' = [pc EXCEPT ![c] = "read_payload_lock",
                                ![FreeChain] = "read_heading"]
            /\ UNCHANGED locals
    /\ UNCHANGED <<shared, msg, nextFrame, history>>
    /\ UNCHANGED hist
    /\ UNCHANGED p2pVars

\* read_payload: if (stopped()) return;
read_payload(c) ==
    /\ pc[c] = "read_payload"
    /\ IF stopped_
       THEN ChainEnd(c)
       ELSE /\ Goto(c, "read_payload_lock")
            /\ UNCHANGED locals
    /\ UNCHANGED <<shared, msg, nextFrame, history>>
    /\ UNCHANGED hist
    /\ UNCHANGED p2pVars

\* unique_lock lock(mutex_);
read_payload_lock(c) ==
    /\ pc[c] = "read_payload_lock"
    /\ mutex_ = NoOwner
    /\ mutex_' = c
    /\ Goto(c, "read_payload_read")
    /\ UNCHANGED <<stopped_, socket_, message_subscriber_, stop_subscriber_,
                   locals, nextFrame, history>>
    /\ UNCHANGED hist
    /\ UNCHANGED p2pVars

\* payload_buffer_.resize(head.payload_size); async_read(..., bound with
\* head); the lock is released on return, then handle_activity().
read_payload_read(c) ==
    /\ pc[c] = "read_payload_read"
    /\ mutex_' = NoOwner
    /\ Goto(c, "payload_pending")
    /\ UNCHANGED <<stopped_, socket_, message_subscriber_, stop_subscriber_,
                   locals, nextFrame, history>>
    /\ UNCHANGED hist
    /\ UNCHANGED p2pVars

\* The socket completes the payload read: the payload the heading announced,
\* a corrupted one, or a failure that leaves the buffer with either.
read_payload_complete(c) ==
    /\ pc[c] = "payload_pending"
    /\ \/ /\ ec' = [ec EXCEPT ![c] = "boost_error"]
          /\ \E b \in Payloads : payload' = [payload EXCEPT ![c] = b]
       \/ /\ ~socket_.closed
          /\ \E b \in Payloads : payload' = [payload EXCEPT ![c] = b]
          /\ UNCHANGED ec
    /\ Goto(c, "handle_read_payload")
    /\ UNCHANGED <<shared, code, ret, msg, head, frame, parse_error,
                   nextFrame, history>>
    /\ UNCHANGED hist
    /\ UNCHANGED p2pVars

\* A test that lets every payload pass.
ChecksumValid_lenient(h, b) == TRUE

\* head.checksum != bitcoin_checksum(payload_buffer_)
ChecksumValid(h, b) == h.checksum = bitcoin_checksum(b)

\* proxy::handle_read_payload up to the checksum test.
handle_read_payload(c) ==
    /\ pc[c] = "handle_read_payload"
    /\ IF stopped_
       THEN ChainEnd(c)
       ELSE IF ~ChecksumValid(head[c], payload[c])
       THEN /\ CallStop(c, "bad_stream", "none")
            /\ ChainLocalsReset(c)
       ELSE /\ Goto(c, "payload_load")
            /\ UNCHANGED locals
    /\ UNCHANGED <<shared, msg, nextFrame, history>>
    /\ UNCHANGED hist
    /\ UNCHANGED p2pVars

\* message_subscriber_.load(head.type(), istream): the payload parses as its
\* command's message and is relayed to the subscribers, or fails to parse.
payload_load(c) ==
    /\ pc[c] = "payload_load"
    /\ \/ /\ parse_error' = [parse_error EXCEPT ![c] = "success"]
          /\ delivered' = Notify(delivered, message_subscriber_.subs,
                                 Delivery("success", frame[c]))
          /\ hist' = [hist EXCEPT !.lateDelivery =
                          @ \/ (hist.stopReturned
                                  /\ message_subscriber_.subs # {})]
       \/ /\ parse_error' = [parse_error EXCEPT ![c] = "bad_stream"]
          /\ UNCHANGED <<delivered, hist>>
    /\ Goto(c, "payload_loaded")
    /\ UNCHANGED <<shared, code, ret, msg, ec, head, frame, payload,
                   nextFrame, started, startResult, sendResult, writes,
                   stopNotified>>
    /\ UNCHANGED p2pVars

\* payload_loaded without the test of the parse result: the handler goes on
\* to the next heading whatever message_subscriber_.load returned.
payload_loaded_tolerant(c) ==
    /\ pc[c] = "payload_loaded"
    /\ IF stopped_
       THEN ChainEnd(c)
       ELSE IF ec[c] # "success"
       THEN /\ CallStop(c, ec[c], "none")
            /\ ChainLocalsReset(c)
       ELSE /\ Goto(c, "read_heading")
            /\ ChainLocalsReset(c)
            /\ UNCHANGED <<code, ret>>
    /\ UNCHANGED <<shared, msg, nextFrame, history>>
    /\ UNCHANGED hist
    /\ UNCHANGED p2pVars

\* The rest of handle_read_payload: if (stopped()) return; if (ec) stop(ec),
\* return; if (parse_error) stop(parse_error); handle_activity();
\* read_heading();
payload_loaded(c) ==
    /\ pc[c] = "payload_loaded"
    /\ IF stopped_
       THEN ChainEnd(c)
       ELSE IF ec[c] # "success"
       THEN /\ CallStop(c, ec[c], "none")
            /\ ChainLocalsReset(c)
       ELSE IF parse_error[c] # "success"
       THEN /\ CallStop(c, parse_error[c], "read_heading")
            /\ ChainLocalsReset(c)
       ELSE /\ Goto(c, "read_heading")
            /\ ChainLocalsReset(c)
            /\ UNCHANGED <<code, ret>>
    /\ UNCHANGED <<shared, msg, nextFrame, history>>
    /\ UNCHANGED hist
    /\ UNCHANGED p2pVars

\* ------------------------------------------------------------------------
\* proxy::do_send and proxy::handle_send
\* ------------------------------------------------------------------------

\* if (stopped()) { handler(error::channel_stopped); return; }
SendGuard(t) == stopped_

\* A thread calls send(message, handler): do_send's guard.
do_send(t, m) ==
    /\ pc[t] = "idle"
    /\ writes[m].st = "none"
    /\ sendResult[m] = "none"
    /\ \A u \in Threads : msg[u] # m
    /\ IF SendGuard(t)
       THEN /\ sendResult' = [sendResult EXCEPT ![m] = "channel_stopped"]
            /\ UNCHANGED <<pc, msg>>
       ELSE /\ Goto(t, "do_send_lock")
            /\ msg' = [msg EXCEPT ![t] = m]
            /\ UNCHANGED sendResult
    /\ hist' = [hist EXCEPT !.lateSend =
                    @ \/ (hist.stopReturned /\ ~SendGuard(t))]
    /\ UNCHANGED <<shared, code, ret, ec, head, frame, payload, parse_error,
                   nextFrame, started, startResult, writes, stopNotified,
                   delivered>>
    /\ UNCHANGED p2pVars

\* A do_send that does not wait for the mutex.
do_send_lock_unguarded(t) ==
    /\ pc[t] = "do_send_lock"
    /\ mutex_' = t
    /\ Goto(t, "do_send_write")
    /\ hist' = [hist EXCEPT !.sendOrder = Append(@, msg[t])]
    /\ UNCHANGED <<stopped_, socket_, message_subscriber_, stop_subscriber_,
                   locals, nextFrame, history>>
    /\ UNCHANGED p2pVars

\* unique_lock lock(mutex_);
do_send_lock(t) ==
    /\ pc[t] = "do_send_lock"
    /\ mutex_ = NoOwner
    /\ mutex_' = t
    /\ Goto(t, "do_send_write")
    /\ hist' = [hist EXCEPT !.sendOrder = Append(@, msg[t])]
    /\ UNCHANGED <<stopped_, socket_, message_subscriber_, stop_subscriber_,
                   locals, nextFrame, history>>
    /\ UNCHANGED p2pVars

\* async_write(*socket_, buffer, handle_send): a composed operation that
\* queues one async_write_some at a time until the whole message (one or
\* two pieces, as the socket takes it) is written; the lock is released on
\* return.
do_send_write(t) ==
    /\ pc[t] = "do_send_write"
    /\ mutex_' = NoOwner
    /\ socket_' = [socket_ EXCEPT !.wq = Append(@, msg[t])]
    /\ \E n \in 1 .. MaxPieces :
           writes' = [writes EXCEPT ![msg[t]] = [st |-> "queued", left |-> n]]
    /\ msg' = [msg EXCEPT ![t] = "none"]
    /\ Goto(t, "idle")
    /\ UNCHANGED <<stopped_, message_subscriber_, stop_subscriber_,
                   code, ret, ec, head, frame, payload, parse_error,
                   nextFrame, started, startResult, sendResult, stopNotified,
                   delivered>>
    /\ UNCHANGED hist
    /\ UNCHANGED p2pVars

\* The socket serves the write at the head of its queue: one piece goes on
\* the wire, or the write fails because the socket has been shut down.
socket_write_some ==
    /\ socket_.wq # <<>>
    /\ LET m == Head(socket_.wq) IN
       IF socket_.closed
       THEN /\ socket_' = [socket_ EXCEPT !.wq = Tail(@)]
            /\ writes' = [writes EXCEPT ![m] = [st |-> "failed", left |-> 0]]
       ELSE /\ socket_' = [socket_ EXCEPT !.wq = Tail(@),
                                          !.wire = Append(@, m)]
            /\ writes' = [writes EXCEPT ![m] =
                              [st |-> "written", left |-> @.left - 1]]
    /\ UNCHANGED <<stopped_, mutex_, message_subscriber_, stop_subscriber_,
                   pc, locals, nextFrame, started, startResult, sendResult,
                   stopNotified, delivered>>
    /\ UNCHANGED hist
    /\ UNCHANGED p2pVars

\* The composed write continues on a pool thread: the next piece is queued,
\* or the operation is complete and handle_send calls handler(error).
handle_send(m) ==
    /\ writes[m].st \in {"written", "failed"}
    /\ IF writes[m].st = "written" /\ writes[m].left > 0
       THEN /\ socket_' = [socket_ EXCEPT !.wq = Append(@, m)]
            /\ writes' = [writes EXCEPT ![m].st = "queued"]
            /\ UNCHANGED sendResult
       ELSE /\ sendResult' = [sendResult EXCEPT ![m] =
                   IF writes[m].st = "failed" THEN "boost_error" ELSE "success"]
            /\ writes' = [writes EXCEPT ![m] = [st |-> "done", left |-> 0]]
            /\ UNCHANGED socket_
    /\ UNCHANGED <<stopped_, mutex_, message_subscriber_, stop_subscriber_,
                   pc, locals, nextFrame, started, startResult,
                   stopNotified, delivered>>
    /\ UNCHANGED hist
    /\ UNCHANGED p2pVars

\* ------------------------------------------------------------------------
\* p2p::start and its completion handlers
\* ------------------------------------------------------------------------

P2PGoto(p, l) == p2p_pc' = [p2p_pc EXCEPT ![p] = l]

p2pShared == <<p2p_stopped_, subscriber_, manual_, hosts_, connections_,
               threadpool_, sessions>>

FreeStartChain ==
    CHOOSE c \in StartChains :
        p2p_pc[c] = "none" /\ \A d \in StartChains : p2p_pc[d] = "none" => c <= d

\* if (!stopped()) { handler(error::operation_failed); return; }
P2PStartGuard(t) == p2p_stopped_

\* The callers that are inside start and have not yet begun their start
\* sequence.
Starting ==
    {t \in Threads : p2p_pc[t] \in {"start_clear", "start_subscriber",
                                    "start_threadpool", "start_manual"}}

\* A thread calls start(handler): the guard.
p2p_start(t) ==
    /\ p2p_pc[t] = "idle"
    /\ Cardinality({c \in StartChains : p2p_pc[c] = "none"})
           > Cardinality(Starting)
    /\ IF P2PStartGuard(t)
       THEN /\ P2PGoto(t, "start_clear")
            /\ p2p_hist' = [p2p_hist EXCEPT !.begun = @ + 1]
            /\ UNCHANGED p2p_startResult
       ELSE /\ p2p_startResult' = "operation_failed"
            /\ UNCHANGED <<p2p_pc, p2p_hist>>
    /\ UNCHANGED <<p2pShared, p2p_ec, connectNotified>>
    /\ UNCHANGED p2pCalls
    /\ UNCHANGED chanVars

\* stopped_ = false;
p2p_start_clear(t) ==
    /\ p2p_pc[t] = "start_clear"
    /\ p2p_stopped_' = FALSE
    /\ P2PGoto(t, "start_subscriber")
    /\ p2p_hist' = [p2p_hist EXCEPT !.runSaves = 0]
    /\ UNCHANGED <<subscriber_, manual_, hosts_, connections_, threadpool_,
                   sessions, p2p_ec, p2p_startResult, connectNotified>>
    /\ UNCHANGED p2pCalls
    /\ UNCHANGED chanVars

\* subscriber_->start();
p2p_start_subscriber(t) ==
    /\ p2p_pc[t] = "start_subscriber"
    /\ subscriber_' = SubscriberStart(subscriber_)
    /\ P2PGoto(t, "start_threadpool")
    /\ UNCHANGED <<p2p_stopped_, manual_, hosts_, connections_, threadpool_,
                   sessions, p2p_ec, p2p_startResult, connectNotified,
                   p2p_hist>>
    /\ UNCHANGED p2pCalls
    /\ UNCHANGED chanVars

\* threadpool_.join(); threadpool_.spawn(settings_.threads, low);
p2p_start_threadpool(t) ==
    /\ p2p_pc[t] = "start_threadpool"
    /\ threadpool_' = "spawned"
    /\ P2PGoto(t, "start_manual")
    /\ UNCHANGED <<p2p_stopped_, subscriber_, manual_, hosts_, connections_,
                   sessions, p2p_ec, p2p_startResult, connectNotified,
                   p2p_hist>>
    /\ UNCHANGED p2pCalls
    /\ UNCHANGED chanVars

\* auto manual = attach<session_manual>(); manual->start(handler): the
\* session's start completes in a start sequence of its own.
p2p_start_manual(t) ==
    /\ p2p_pc[t] = "start_manual"
    /\ sessions' = sessions \cup {"manual"}
    /\ p2p_pc' = [p2p_pc EXCEPT ![t] = "start_store",
                                ![FreeStartChain] = "manual_starting"]
    /\ p2p_hist' = [p2p_hist EXCEPT !.handled[FreeStartChain] = 0]
    /\ UNCHANGED <<p2p_stopped_, subscriber_, manual_, hosts_, connections_,
                   threadpool_, p2p_ec, p2p_startResult, connectNotified>>
    /\ UNCHANGED p2pCalls
    /\ UNCHANGED chanVars

\* manual_.store(manual);
p2p_start_store(t) ==
    /\ p2p_pc[t] = "start_store"
    /\ manual_' = "manual"
    /\ P2PGoto(t, "idle")
    /\ UNCHANGED <<p2p_stopped_, subscriber_, hosts_, connections_,
                   threadpool_, sessions, p2p_ec, p2p_startResult,
                   connectNotified, p2p_hist>>
    /\ UNCHANGED p2pCalls
    /\ UNCHANGED chanVars

\* What a sequence has done so far: one record for every step completed.
Done(step, e) == [step |-> step, code |-> e]

\* A step of the sequence in chain c has completed with e.
Completed(c, step, e) ==
    [p2p_hist EXCEPT !.trail[c] = Append(@, Done(step, e))]

\* The handler of a start sequence is called with e and the sequence is
\* over.
StartHandler(c, e) ==
    /\ p2p_startResult' = e
    /\ P2PGoto(c, "none")
    /\ p2p_ec' = [p2p_ec EXCEPT ![c] = "success"]
    /\ p2p_hist' = [p2p_hist EXCEPT !.trail[c] = <<>>, !.handled[c] = @ + 1]

\* The manual session's start completes, with success or a failure.
manual_started(c) ==
    /\ p2p_pc[c] = "manual_starting"
    /\ \E e \in SessionCodes :
           /\ p2p_ec' = [p2p_ec EXCEPT ![c] = e]
           /\ p2p_hist' = Completed(c, "manual", e)
    /\ P2PGoto(c, "handle_manual_started")
    /\ UNCHANGED <<p2pShared, p2p_startResult, connectNotified>>
    /\ UNCHANGED p2pCalls
    /\ UNCHANGED chanVars

\* p2p::handle_manual_started; on success hosts_.load() is called and its
\* result handed to handle_hosts_loaded.
handle_manual_started(c) ==
    /\ p2p_pc[c] = "handle_manual_started"
    /\ IF p2p_stopped_
       THEN StartHandler(c, "service_stopped") /\ UNCHANGED hosts_
       ELSE IF p2p_ec[c] # "success"
       THEN StartHandler(c, p2p_ec[c]) /\ UNCHANGED hosts_
       ELSE /\ hosts_' = [hosts_ EXCEPT !.loads = 1]
            /\ \E e \in HostsCodes :
                   /\ p2p_ec' = [p2p_ec EXCEPT ![c] = e]
                   /\ p2p_hist' = Completed(c, "load", e)
            /\ P2PGoto(c, "handle_hosts_loaded")
            /\ UNCHANGED p2p_startResult
    /\ UNCHANGED <<p2p_stopped_, subscriber_, manual_, connections_,
                   threadpool_, sessions, connectNotified>>
    /\ UNCHANGED p2pCalls
    /\ UNCHANGED chanVars

\* A handle_hosts_loaded that looks at the result of the load only.
handle_hosts_loaded_unchecked(c) ==
    /\ p2p_pc[c] = "handle_hosts_loaded"
    /\ IF p2p_ec[c] # "success"
       THEN StartHandler(c, p2p_ec[c]) /\ UNCHANGED sessions
       ELSE /\ sessions' = sessions \cup {"seed"}
            /\ P2PGoto(c, "seeding")
            /\ UNCHANGED <<p2p_ec, p2p_startResult, p2p_hist>>
    /\ UNCHANGED <<p2p_stopped_, subscriber_, manual_, hosts_, connections_,
                   threadpool_, connectNotified>>
    /\ UNCHANGED p2pCalls
    /\ UNCHANGED chanVars

\* p2p::handle_hosts_loaded; on success the seed session is attached and
\* started.
handle_hosts_loaded(c) ==
    /\ p2p_pc[c] = "handle_hosts_loaded"
    /\ IF p2p_stopped_
       THEN StartHandler(c, "service_stopped") /\ UNCHANGED sessions
       ELSE IF p2p_ec[c] # "success"
       THEN StartHandler(c, p2p_ec[c]) /\ UNCHANGED sessions
       ELSE /\ sessions' = sessions \cup {"seed"}
            /\ P2PGoto(c, "seeding")
            /\ UNCHANGED <<p2p_ec, p2p_startResult, p2p_hist>>
    /\ UNCHANGED <<p2p_stopped_, subscriber_, manual_, hosts_, connections_,
                   threadpool_, connectNotified>>
    /\ UNCHANGED p2pCalls
    /\ UNCHANGED chanVars

\* The seed session's start completes, with success or a failure.
hosts_seeded(c) ==
    /\ p2p_pc[c] = "seeding"
    /\ \E e \in SessionCodes :
           /\ p2p_ec' = [p2p_ec EXCEPT ![c] = e]
           /\ p2p_hist' = Completed(c, "seed", e)
    /\ P2PGoto(c, "handle_hosts_seeded")
    /\ UNCHANGED <<p2pShared, p2p_startResult, connectNotified>>
    /\ UNCHANGED p2pCalls
    /\ UNCHANGED chanVars

\* p2p::handle_hosts_seeded
handle_hosts_seeded(c) ==
    /\ p2p_pc[c] = "handle_hosts_seeded"
    /\ StartHandler(c, IF p2p_stopped_ THEN "service_stopped" ELSE p2p_ec[c])
    /\ UNCHANGED <<p2pShared, connectNotified>>
    /\ UNCHANGED p2pCalls
    /\ UNCHANGED chanVars

\* ------------------------------------------------------------------------
\* p2p::run and its completion handlers
\* ------------------------------------------------------------------------

FreeRunChain == CHOOSE c \in RunChains : p2p_pc[c] = "none"

\* attach<Session>() made while the manager is stopped is remembered.
Attached(h) == [h EXCEPT !.lateAttach = @ \/ p2p_stopped_]

\* p2p::run: attach<session_inbound>()->start(handler); the session's start
\* completes in a run sequence of its own.
p2p_run(t) ==
    /\ p2p_pc[t] = "idle"
    /\ \E c \in RunChains : p2p_pc[c] = "none"
    /\ sessions' = sessions \cup {"inbound"}
    /\ P2PGoto(FreeRunChain, "inbound_starting")
    /\ p2p_hist' = [Attached(p2p_hist) EXCEPT !.runs = TRUE,
                                              !.handled[FreeRunChain] = 0]
    /\ UNCHANGED <<p2p_stopped_, subscriber_, manual_, hosts_, connections_,
                   threadpool_, p2p_ec, p2p_startResult, connectNotified>>
    /\ UNCHANGED p2pCalls
    /\ UNCHANGED chanVars

\* The handler of a run sequence is called with e and the sequence is over.
RunHandler(c, e) ==
    /\ p2p_runResult' = e
    /\ P2PGoto(c, "none")
    /\ p2p_ec' = [p2p_ec EXCEPT ![c] = "success"]
    /\ p2p_hist' = [p2p_hist EXCEPT !.trail[c] = <<>>, !.handled[c] = @ + 1]

\* The inbound session's start completes, with success or a failure.
inbound_started(c) ==
    /\ p2p_pc[c] = "inbound_starting"
    /\ \E e \in SessionCodes :
           /\ p2p_ec' = [p2p_ec EXCEPT ![c] = e]
           /\ p2p_hist' = Completed(c, "inbound", e)
    /\ P2PGoto(c, "handle_inbound_started")
    /\ UNCHANGED <<p2pShared, p2p_startResult, connectNotified>>
    /\ UNCHANGED p2pCalls
    /\ UNCHANGED chanVars

\* A handle_inbound_started that attaches the outbound session whatever the
\* inbound session's start reported.
handle_inbound_started_eager(c) ==
    /\ p2p_pc[c] = "handle_inbound_started"
    /\ sessions' = sessions \cup {"outbound"}
    /\ P2PGoto(c, "outbound_starting")
    /\ p2p_hist' = Attached(p2p_hist)
    /\ UNCHANGED <<p2p_stopped_, subscriber_, manual_, hosts_, connections_,
                   threadpool_, p2p_ec, p2p_startResult, connectNotified>>
    /\ UNCHANGED p2pCalls
    /\ UNCHANGED chanVars

\* p2p::handle_inbound_started; on success the outbound session is attached
\* and started.
handle_inbound_started(c) ==
    /\ p2p_pc[c] = "handle_inbound_started"
    /\ IF p2p_ec[c] # "success"
       THEN RunHandler(c, p2p_ec[c]) /\ UNCHANGED sessions
       ELSE /\ sessions' = sessions \cup {"outbound"}
            /\ P2PGoto(c, "outbound_starting")
            /\ p2p_hist' = Attached(p2p_hist)
            /\ UNCHANGED <<p2p_ec, p2p_runResult>>
    /\ UNCHANGED <<p2p_stopped_, subscriber_, manual_, hosts_, connections_,
                   threadpool_, p2p_startResult, connectNotified>>
    /\ UNCHANGED <<p2p_chan, storeResult, dials, connectResult, removeResult>>
    /\ UNCHANGED chanVars

\* The outbound session's start completes, with success or a failure.
outbound_started(c) ==
    /\ p2p_pc[c] = "outbound_starting"
    /\ \E e \in SessionCodes :
           /\ p2p_ec' = [p2p_ec EXCEPT ![c] = e]
           /\ p2p_hist' = Completed(c, "outbound", e)
    /\ P2PGoto(c, "handle_outbound_started")
    /\ UNCHANGED <<p2pShared, p2p_startResult, connectNotified>>
    /\ UNCHANGED p2pCalls
    /\ UNCHANGED chanVars

\* p2p::handle_outbound_started
handle_outbound_started(c) ==
    /\ p2p_pc[c] = "handle_outbound_started"
    /\ RunHandler(c, p2p_ec[c])
    /\ UNCHANGED <<p2pShared, p2p_startResult, connectNotified>>
    /\ UNCHANGED <<p2p_chan, storeResult, dials, connectResult, removeResult>>
    /\ UNCHANGED chanVars

\* ------------------------------------------------------------------------
\* p2p::subscribe_connections
\* ------------------------------------------------------------------------

\* subscriber_->subscribe(handler, error::service_stopped, nullptr);
subscribe_connections(t, h) ==
    /\ p2p_pc[t] = "idle"
    /\ h \notin subscriber_.subs
    /\ connectNotified[h] = <<>>
    /\ subscriber_' = SubscriberSubscribe(subscriber_, h)
    /\ connectNotified' =
           IF subscriber_.stopped
           THEN [connectNotified EXCEPT ![h] = Append(@, "service_stopped")]
           ELSE connectNotified
    /\ UNCHANGED <<p2p_stopped_, manual_, hosts_, connections_, threadpool_,
                   sessions, p2p_pc, p2p_ec, p2p_startResult, p2p_hist>>
    /\ UNCHANGED p2pCalls
    /\ UNCHANGED chanVars

\* ------------------------------------------------------------------------
\* p2p::store, p2p::handle_new_connection, p2p::remove
\* ------------------------------------------------------------------------

\* The channels of the set that are connected to the endpoint of k.
SameEndpoint(k) ==
    {j \in connections_.channels : Authority(j) = Authority(k)}

\* A session calls store(channel, handler) for the channel k:
\* connections_->store(channel, new_connection_handler).
p2p_store(s, k) ==
    /\ p2p_pc[s] = "none"
    /\ P2PGoto(s, "store_pending")
    /\ p2p_chan' = [p2p_chan EXCEPT ![s] = k]
    /\ UNCHANGED <<p2pShared, p2p_ec, p2p_startResult, connectNotified,
                   p2p_hist>>
    /\ UNCHANGED <<p2p_runResult, storeResult, dials, connectResult,
                   removeResult>>
    /\ UNCHANGED chanVars

\* The connections set stores the channel, or refuses it with
\* address_in_use if a channel of the same endpoint is present, and
\* completes with the result.
connections_store(s) ==
    /\ p2p_pc[s] = "store_pending"
    /\ IF SameEndpoint(p2p_chan[s]) # {}
       THEN /\ p2p_ec' = [p2p_ec EXCEPT ![s] = "address_in_use"]
            /\ UNCHANGED connections_
       ELSE /\ p2p_ec' = [p2p_ec EXCEPT ![s] = "success"]
            /\ connections_' =
                   [connections_ EXCEPT !.channels = @ \cup {p2p_chan[s]}]
    /\ P2PGoto(s, "handle_new_connection")
    /\ UNCHANGED <<p2p_stopped_, subscriber_, manual_, hosts_, threadpool_,
                   sessions, p2p_startResult, connectNotified, p2p_hist>>
    /\ UNCHANGED p2pCalls
    /\ UNCHANGED chanVars

\* A handle_new_connection that reports success whatever the set answered.
handle_new_connection_success(s) ==
    /\ p2p_pc[s] = "handle_new_connection"
    /\ storeResult' = [storeResult EXCEPT ![s] = "success"]
    /\ P2PGoto(s, "new_connection_relay")
    /\ UNCHANGED <<p2pShared, p2p_ec, p2p_startResult, connectNotified,
                   p2p_hist>>
    /\ UNCHANGED <<p2p_runResult, p2p_chan, dials, connectResult,
                   removeResult>>
    /\ UNCHANGED chanVars

\* p2p::handle_new_connection: handler(ec);
handle_new_connection(s) ==
    /\ p2p_pc[s] = "handle_new_connection"
    /\ storeResult' = [storeResult EXCEPT ![s] = p2p_ec[s]]
    /\ P2PGoto(s, "new_connection_relay")
    /\ UNCHANGED <<p2pShared, p2p_ec, p2p_startResult, connectNotified,
                   p2p_hist>>
    /\ UNCHANGED <<p2p_runResult, p2p_chan, dials, connectResult,
                   removeResult>>
    /\ UNCHANGED chanVars

\* The store call is over.
StoreEnd(s) ==
    /\ P2PGoto(s, "none")
    /\ p2p_ec' = [p2p_ec EXCEPT ![s] = "success"]
    /\ p2p_chan' = [p2p_chan EXCEPT ![s] = "none"]
    /\ storeResult' = [storeResult EXCEPT ![s] = "none"]

\* subscriber_->relay(error::success, channel);
RelayChannel(s) ==
    /\ connectNotified' = Notify(connectNotified, subscriber_.subs, "success")
    /\ subscriber_' = [subscriber_ EXCEPT !.subs = {}]

\* A handle_new_connection that relays every channel stored, whatever its
\* notify() returns.
new_connection_relay_always(s) ==
    /\ p2p_pc[s] = "new_connection_relay"
    /\ IF p2p_ec[s] = "success"
       THEN RelayChannel(s)
       ELSE UNCHANGED <<connectNotified, subscriber_>>
    /\ StoreEnd(s)
    /\ UNCHANGED <<p2p_stopped_, manual_, hosts_, connections_, threadpool_,
                   sessions, p2p_startResult, p2p_hist>>
    /\ UNCHANGED <<p2p_runResult, dials, connectResult, removeResult>>
    /\ UNCHANGED chanVars

\* p2p::handle_new_connection:
\* if (!ec && channel->notify()) subscriber_->relay(error::success, channel);
new_connection_relay(s) ==
    /\ p2p_pc[s] = "new_connection_relay"
    /\ IF p2p_ec[s] = "success" /\ ChannelNotify(p2p_chan[s])
       THEN RelayChannel(s)
       ELSE UNCHANGED <<connectNotified, subscriber_>>
    /\ StoreEnd(s)
    /\ UNCHANGED <<p2p_stopped_, manual_, hosts_, connections_, threadpool_,
                   sessions, p2p_startResult, p2p_hist>>
    /\ UNCHANGED <<p2p_runResult, dials, connectResult, removeResult>>
    /\ UNCHANGED chanVars

\* p2p::remove: connections_->remove(channel, handler); the set drops the
\* channel and answers success, or not_found if it does not hold it.
p2p_remove(k) ==
    /\ connections_' = [connections_ EXCEPT !.channels = @ \ {k}]
    /\ removeResult' =
           IF k \in connections_.channels THEN "success" ELSE "not_found"
    /\ UNCHANGED <<p2p_stopped_, subscriber_, manual_, hosts_, threadpool_,
                   sessions, p2p_pc, p2p_ec, p2p_startResult, connectNotified,
                   p2p_hist>>
    /\ UNCHANGED <<p2p_runResult, p2p_chan, storeResult, dials, connectResult>>
    /\ UNCHANGED chanVars

\* ------------------------------------------------------------------------
\* p2p::connect
\* ------------------------------------------------------------------------

\* A thread calls connect(hostname, port) or, with withHandler, the variant
\* connect(hostname, port, handler): the guard.
p2p_connect(t, withHandler) ==
    /\ p2p_pc[t] = "idle"
    /\ IF p2p_stopped_
       THEN /\ connectResult' =
                   IF withHandler THEN "service_stopped" ELSE connectResult
            /\ UNCHANGED p2p_pc
       ELSE /\ P2PGoto(t, "connect_load")
            /\ UNCHANGED connectResult
    /\ UNCHANGED <<p2pShared, p2p_ec, p2p_startResult, connectNotified,
                   p2p_hist>>
    /\ UNCHANGED <<p2p_runResult, p2p_chan, storeResult, dials, removeResult>>
    /\ UNCHANGED chanVars

\* auto manual = manual_.load(); if (manual) manual->connect(...);
p2p_connect_load(t) ==
    /\ p2p_pc[t] = "connect_load"
    /\ IF manual_ # "nullptr"
       THEN /\ dials' = dials \cup Hosts
            /\ UNCHANGED p2p_hist
       ELSE /\ p2p_hist' =
                   [p2p_hist EXCEPT !.dropped = @ \/ ~p2p_stopped_]
            /\ UNCHANGED dials
    /\ P2PGoto(t, "idle")
    /\ UNCHANGED <<p2pShared, p2p_ec, p2p_startResult, connectNotified>>
    /\ UNCHANGED <<p2p_runResult, p2p_chan, storeResult, connectResult,
                   removeResult>>
    /\ UNCHANGED chanVars

\* ------------------------------------------------------------------------
\* p2p::stop
\* ------------------------------------------------------------------------

\* A thread calls stop(handler).
p2p_stop(t) ==
    /\ p2p_pc[t] = "idle"
    /\ p2p_hist.stops < MaxStops
    /\ P2PGoto(t, "stop_subscriber")
    /\ p2p_hist' = [p2p_hist EXCEPT !.stops = @ + 1,
                                    !.was[t] = p2p_stopped_,
                                    !.saved[t] = "none"]
    /\ UNCHANGED <<p2pShared, p2p_ec, p2p_startResult, connectNotified>>
    /\ UNCHANGED p2pCalls
    /\ UNCHANGED chanVars

\* subscriber_->stop();
p2p_stop_subscriber(t) ==
    /\ p2p_pc[t] = "stop_subscriber"
    /\ subscriber_' = SubscriberStop(subscriber_)
    /\ P2PGoto(t, "stop_relay")
    /\ UNCHANGED <<p2p_stopped_, manual_, hosts_, connections_, threadpool_,
                   sessions, p2p_ec, p2p_startResult, connectNotified,
                   p2p_hist>>
    /\ UNCHANGED p2pCalls
    /\ UNCHANGED chanVars

\* subscriber_->relay(error::service_stopped, nullptr);
p2p_stop_relay(t) ==
    /\ p2p_pc[t] = "stop_relay"
    /\ connectNotified' =
           Notify(connectNotified, subscriber_.subs, "service_stopped")
    /\ subscriber_' = [subscriber_ EXCEPT !.subs = {}]
    /\ P2PGoto(t, "stop_connections")
    /\ UNCHANGED <<p2p_stopped_, manual_, hosts_, connections_, threadpool_,
                   sessions, p2p_ec, p2p_startResult, p2p_hist>>
    /\ UNCHANGED p2pCalls
    /\ UNCHANGED chanVars

\* connections_->stop(error::service_stopped);
p2p_stop_connections(t) ==
    /\ p2p_pc[t] = "stop_connections"
    /\ connections_' = [connections_ EXCEPT !.stopped = TRUE]
    /\ P2PGoto(t, "stop_manual")
    /\ UNCHANGED <<p2p_stopped_, subscriber_, manual_, hosts_, threadpool_,
                   sessions, p2p_ec, p2p_startResult, connectNotified,
                   p2p_hist>>
    /\ UNCHANGED p2pCalls
    /\ UNCHANGED chanVars

\* A stop that sets the stopped flag when it clears the manual session,
\* before it has saved the hosts.
p2p_stop_manual_set(t) ==
    /\ p2p_pc[t] = "stop_manual"
    /\ manual_' = "nullptr"
    /\ p2p_stopped_' = TRUE
    /\ P2PGoto(t, "stop_save")
    /\ UNCHANGED <<subscriber_, hosts_, connections_,
                   threadpool_, sessions, p2p_ec, p2p_startResult,
                   connectNotified, p2p_hist>>
    /\ UNCHANGED p2pCalls
    /\ UNCHANGED chanVars

\* manual_.store(nullptr);
p2p_stop_manual(t) ==
    /\ p2p_pc[t] = "stop_manual"
    /\ manual_' = "nullptr"
    /\ P2PGoto(t, "stop_save")
    /\ UNCHANGED <<p2p_stopped_, subscriber_, hosts_, connections_,
                   threadpool_, sessions, p2p_ec, p2p_startResult,
                   connectNotified, p2p_hist>>
    /\ UNCHANGED p2pCalls
    /\ UNCHANGED chanVars

\* A stop that saves the hosts whether or not the manager is stopped.
SaveSkipped_never(t) == FALSE

\* stopped_ ? error::success : hosts_.save()
SaveSkipped(t) == p2p_stopped_

\* const auto ec = stopped_ ? error::success : hosts_.save();
p2p_stop_save(t) ==
    /\ p2p_pc[t] = "stop_save"
    /\ IF SaveSkipped(t)
       THEN /\ p2p_ec' = [p2p_ec EXCEPT ![t] = "success"]
            /\ UNCHANGED <<hosts_, p2p_hist>>
       ELSE /\ hosts_' = [hosts_ EXCEPT !.saves = @ + 1]
            /\ \E e \in HostsCodes :
                   /\ p2p_ec' = [p2p_ec EXCEPT ![t] = e]
                   /\ p2p_hist' = [p2p_hist EXCEPT !.saved[t] = e,
                                                   !.runSaves = @ + 1]
    /\ P2PGoto(t, "stop_set")
    /\ UNCHANGED <<p2p_stopped_, subscriber_, manual_, connections_,
                   threadpool_, sessions, p2p_startResult, connectNotified>>
    /\ UNCHANGED p2pCalls
    /\ UNCHANGED chanVars

\* stopped_ = true;
p2p_stop_set(t) ==
    /\ p2p_pc[t] = "stop_set"
    /\ p2p_stopped_' = TRUE
    /\ P2PGoto(t, "stop_threadpool")
    /\ p2p_hist' = [p2p_hist EXCEPT !.begun = 0]
    /\ UNCHANGED <<subscriber_, manual_, hosts_, connections_, threadpool_,
                   sessions, p2p_ec, p2p_startResult, connectNotified>>
    /\ UNCHANGED p2pCalls
    /\ UNCHANGED chanVars

\* threadpool_.shutdown();
p2p_stop_threadpool(t) ==
    /\ p2p_pc[t] = "stop_threadpool"
    /\ threadpool_' = "shutdown"
    /\ P2PGoto(t, "stop_handler")
    /\ UNCHANGED <<p2p_stopped_, subscriber_, manual_, hosts_, connections_,
                   sessions, p2p_ec, p2p_startResult, connectNotified,
                   p2p_hist>>
    /\ UNCHANGED p2pCalls
    /\ UNCHANGED chanVars

\* handler(ec);
p2p_stop_handler(t) ==
    /\ p2p_pc[t] = "stop_handler"
    /\ p2p_hist' = [p2p_hist EXCEPT !.log =
                        Append(@, [was |-> p2p_hist.was[t],
                                   saved |-> p2p_hist.saved[t],
                                   code |-> p2p_ec[t]])]
    /\ p2p_ec' = [p2p_ec EXCEPT ![t] = "success"]
    /\ P2PGoto(t, "idle")
    /\ UNCHANGED <<p2pShared, p2p_startResult, connectNotified>>
    /\ UNCHANGED p2pCalls
    /\ UNCHANGED chanVars

\* ------------------------------------------------------------------------
\* Specifications.
\* ------------------------------------------------------------------------

Init == ChanInit /\ P2PInit

\* Every step a process takes inside start, stop or a read handler.
Internal ==
    \/ \E t \in Threads :
        \/ start_clear(t)
        \/ start_stop_subscriber(t)
        \/ start_message_subscriber(t)
        \/ start_handler(t)
    \/ \E p \in Procs :
        \/ read_heading(p)
        \/ read_heading_lock(p)
        \/ read_heading_read(p)
        \/ stop_check(p)
        \/ stop_set(p)
        \/ stop_message_subscriber(p)
        \/ stop_broadcast(p)
        \/ stop_stop_subscriber(p)
        \/ stop_relay(p)
        \/ stop_lock(p)
        \/ stop_close(p)
    \/ \E c \in Chains :
        \/ read_heading_complete(c)
        \/ handle_read_heading(c)
        \/ read_payload(c)
        \/ read_payload_lock(c)
        \/ read_payload_read(c)
        \/ read_payload_complete(c)
        \/ handle_read_payload(c)
        \/ payload_load(c)
        \/ payload_loaded(c)

\* The steps of do_send after its guard.
Sending == \E t \in Threads : do_send_lock(t) \/ do_send_write(t)

\* The socket writes what was queued and the write handlers run.
Writing ==
    \/ socket_write_some
    \/ \E m \in Messages : handle_send(m)

\* A channel in the hands of its session (thread 1, which starts it) and of
\* a protocol (thread 2): both may stop it, the protocol subscribes and
\* sends.
Next ==
    \/ Internal
    \/ Sending
    \/ proxy_start(1)
    \/ \E t \in Threads : proxy_stop(t, StopCode(t))
    \/ \E h \in StopHandlers : subscribe_stop(2, h)
    \/ \E h \in MessageHandlers : subscribe(2, h)
    \/ do_send(2, "ma")

Spec == Init /\ [][Next]_vars

\* A channel that its session (thread 1) starts with a handler that may
\* subscribe to the channel's messages, and that a protocol (thread 2) may
\* stop.
NextSubscribe ==
    \/ Internal
    \/ proxy_start(1)
    \/ \E h \in MessageHandlers : start_handler_subscribe(1, h)
    \/ proxy_stop(2, StopCode(2))

SpecSubscribe == Init /\ [][NextSubscribe]_vars

\* A channel that its session (thread 1) starts and that either thread may
\* stop, with the scheduling the program relies on: a thread that is inside
\* start, stop or read_heading goes on, the threadpool runs every completion
\* handler that has been posted, and a read on a socket that has been shut
\* down completes.  A read on an open socket may stay outstanding for ever.
NextCancel ==
    \/ Internal
    \/ proxy_start(1)
    \/ \E t \in Threads : proxy_stop(t, StopCode(t))

\* The steps process p takes by itself.
Running(p) ==
    \/ p \in Threads /\ (\/ start_clear(p)
                         \/ start_stop_subscriber(p)
                         \/ start_message_subscriber(p)
                         \/ start_handler(p))
    \/ read_heading(p)
    \/ read_heading_lock(p)
    \/ read_heading_read(p)
    \/ stop_check(p)
    \/ stop_set(p)
    \/ stop_message_subscriber(p)
    \/ stop_broadcast(p)
    \/ stop_stop_subscriber(p)
    \/ stop_relay(p)
    \/ stop_lock(p)
    \/ stop_close(p)
    \/ p \in Chains /\ (\/ handle_read_heading(p)
                        \/ read_payload(p)
                        \/ read_payload_lock(p)
                        \/ read_payload_read(p)
                        \/ handle_read_payload(p)
                        \/ payload_load(p)
                        \/ payload_loaded(p))

\* A read begun on a socket that stop has already closed.
Aborted(c) ==
    socket_.closed /\ (read_heading_complete(c) \/ read_payload_complete(c))

Scheduling ==
    /\ \A p \in Procs : WF_vars(Running(p))
    /\ \A c \in Chains : WF_vars(Aborted(c))

SpecCancel == Init /\ [][NextCancel]_vars /\ Scheduling

\* A channel that either thread may start, so that it can be started again
\* after a stop, and that thread 2 may stop.
NextRestart ==
    \/ Internal
    \/ \E t \in Threads : proxy_start(t)
    \/ proxy_stop(2, StopCode(2))

SpecRestart == Init /\ [][NextRestart]_vars

\* A running channel on which both threads send, and which thread 1 stops.
NextSend ==
    \/ Internal
    \/ Sending
    \/ Writing
    \/ proxy_start(1)
    \/ proxy_stop(1, StopCode(1))
    \/ \E t \in Threads, m \in Messages : do_send(t, m)

SpecSend == Init /\ [][NextSend]_vars

\* The steps of the manager's start sequences, on the thread pool.
StartSequence ==
    \E c \in StartChains :
        \/ manual_started(c)
        \/ handle_manual_started(c)
        \/ handle_hosts_loaded(c)
        \/ hosts_seeded(c)
        \/ handle_hosts_seeded(c)

\* The steps of the manager's run sequences, on the thread pool.
RunSequence ==
    \E c \in RunChains :
        \/ inbound_started(c)
        \/ handle_inbound_started(c)
        \/ outbound_started(c)
        \/ handle_outbound_started(c)

\* The steps of the store calls, on the thread pool.
Storing ==
    \E s \in StoreCalls :
        \/ connections_store(s)
        \/ handle_new_connection(s)
        \/ new_connection_relay(s)

\* The steps of a caller inside start.
P2PStarting ==
    \E t \in Threads :
        \/ p2p_start_clear(t)
        \/ p2p_start_subscriber(t)
        \/ p2p_start_threadpool(t)
        \/ p2p_start_manual(t)
        \/ p2p_start_store(t)

\* The steps of a caller inside stop.
P2PStopping ==
    \E t \in Threads :
        \/ p2p_stop_subscriber(t)
        \/ p2p_stop_relay(t)
        \/ p2p_stop_connections(t)
        \/ p2p_stop_manual(t)
        \/ p2p_stop_save(t)
        \/ p2p_stop_set(t)
        \/ p2p_stop_threadpool(t)
        \/ p2p_stop_handler(t)

\* The steps of a caller inside start and stop.
P2PInternal == P2PStarting \/ P2PStopping

\* A manager whose owner (thread 1) makes its calls one after another:
\* start, stop, subscribe_connections, in any order and any number of
\* stops up to MaxStops, while the start sequences complete on the pool.
NextP2P ==
    \/ P2PInternal
    \/ StartSequence
    \/ p2p_start(1)
    \/ p2p_stop(1)
    \/ \E h \in ConnectHandlers : subscribe_connections(1, h)

SpecP2P == Init /\ [][NextP2P]_vars

\* A manager whose owner (thread 1) starts and runs it, any number of
\* times and in any order, and stops it once, the calls made one after
\* another, while the start and run sequences complete on the pool.
NextRun ==
    \/ P2PInternal
    \/ StartSequence
    \/ RunSequence
    \/ p2p_start(1)
    \/ p2p_run(1)
    \/ p2p_hist.stops = 0 /\ p2p_stop(1)

SpecRun == Init /\ [][NextRun]_vars

\* A manager that its owner (thread 1) starts and whose connection
\* notifications it subscribes to, while the sessions store and remove
\* channels.
NextStore ==
    \/ P2PStarting
    \/ StartSequence
    \/ Storing
    \/ p2p_start(1)
    \/ \E h \in ConnectHandlers : subscribe_connections(1, h)
    \/ \E s \in StoreCalls, k \in ManagedChannels : p2p_store(s, k)
    \/ \E k \in ManagedChannels : p2p_remove(k)

SpecStore == Init /\ [][NextStore]_vars

\* A manager that both threads may start at any time and that thread 1
\* stops once.
NextRace ==
    \/ P2PInternal
    \/ StartSequence
    \/ \E t \in Threads : p2p_start(t)
    \/ p2p_hist.stops = 0 /\ p2p_stop(1)

SpecRace == Init /\ [][NextRace]_vars

\* A manager that its owner (thread 1) starts and that both threads stop,
\* each beginning its stop call before any stop call has returned.
NextStops ==
    \/ P2PInternal
    \/ StartSequence
    \/ p2p_start(1)
    \/ \E t \in Threads : p2p_hist.log = <<>> /\ p2p_stop(t)

SpecStops == Init /\ [][NextStops]_vars

\* A manager that its owner (thread 1) starts, any number of times, and
\* stops once, while thread 2 asks it to connect.
NextConnect ==
    \/ P2PInternal
    \/ StartSequence
    \/ p2p_start(1)
    \/ p2p_hist.stops = 0 /\ p2p_stop(1)
    \/ p2p_connect_load(2)
    \/ \E w \in BOOLEAN : p2p_connect(2, w)

SpecConnect == Init /\ [][NextConnect]_vars

\* ------------------------------------------------------------------------
\* Properties of the channel.
\* ------------------------------------------------------------------------

\* C1: once a call of stop has returned, every send invoked afterwards
\* completes with channel_stopped without reaching the socket, and no read
\* completion handler publishes a message to the message subscribers.
C1_StopIsFinal == ~hist.lateSend /\ ~hist.lateDelivery

\* C2: the lifecycle is created -> running -> stopped and stopped is
\* terminal: once the stopped flag has gone from false to true, no later
\* operation (start in particular) makes the channel running again.
C2_StoppedIsTerminal == hist.stoppedOnce => stopped_

\* C3: however many stop calls are made on a running channel, one after
\* another or concurrently, the stop sequence runs once: channel_stopped is
\* broadcast once and exactly one code is relayed to the stop subscribers.
C3_StopRunsOnce ==
    /\ hist.broadcasts <= 1
    /\ Len(hist.relays) <= 1

\* C4 as stated: every handler registered through subscribe_stop is invoked
\* exactly once and with the code passed to the stop call that stopped the
\* channel, whether it was registered before or after that stop.
C4_HandlerGetsStopCode ==
    \A h \in StopHandlers :
        /\ Len(stopNotified[h]) <= 1
        /\ hist.relays # <<>> =>
               \A i \in DOMAIN stopNotified[h] :
                   stopNotified[h][i] = hist.relays[1]
        /\ (hist.reg[h] # "none" /\ hist.relays # <<>>) => stopNotified[h] # <<>>

\* C4 as the code has it: a handler is invoked at most once.  One that the
\* started registry accepted stays registered until the relay of a stop
\* invokes it, with the code of that stop call; one registered while the
\* registry is stopped (before start, after stop) is invoked at once with
\* channel_stopped and never again.
C4_HandlerInvokedOnce ==
    \A h \in StopHandlers :
        /\ Len(stopNotified[h]) <= 1
        /\ hist.reg[h] = "none" =>
               stopNotified[h] = <<>> /\ h \notin stop_subscriber_.subs
        /\ hist.reg[h] = "refused" =>
               /\ stopNotified[h] = <<"channel_stopped">>
               /\ h \notin stop_subscriber_.subs
        /\ hist.reg[h] = "accepted" =>
               IF h \in stop_subscriber_.subs
               THEN stopNotified[h] = <<>>
               ELSE /\ \E i \in DOMAIN hist.relays :
                           stopNotified[h] = <<hist.relays[i]>>
                    /\ stopNotified[h] # <<"channel_stopped">>

\* A handler was registered on the running channel and a stop has relayed
\* its code to it.
C4_Witness ==
    \E h \in StopHandlers :
        hist.reg[h] = "accepted" /\ stopNotified[h] # <<>>
\* What the code's guard is to decide: the heading parsed, it is of this
\* network, and the payload it announces is at most max_payload_size.
HeadingValid(h) ==
    /\ h.parsed
    /\ h.magic = magic_
    /\ h.payload_size <= max_payload_size

PayloadSteps ==
    {"read_payload", "read_payload_lock", "read_payload_read",
     "payload_pending", "handle_read_payload", "payload_load",
     "payload_loaded"}

\* C5: when a heading read has completed without error on a running
\* channel, the payload read is begun if and only if the heading parsed,
\* has the channel's magic and announces at most max_payload_size bytes;
\* otherwise stop(bad_stream) is called and the read cycle ends, so that no
\* payload is ever read for a heading that is not valid.
C5_HeadingValidation ==
    [][\A c \in Chains :
          /\ (/\ pc[c] = "handle_read_heading"
              /\ pc'[c] # "handle_read_heading"
              /\ ~stopped_
              /\ ec[c] = "success")
             => IF HeadingValid(head[c])
                THEN pc'[c] = "read_payload" /\ head'[c] = head[c]
                ELSE /\ pc'[c] = "stop_check"
                     /\ code'[c] = "bad_stream"
                     /\ ret'[c] = "none"
          /\ pc'[c] \in PayloadSteps => HeadingValid(head'[c])
          /\ (pc[c] = "read_payload" /\ pc'[c] # pc[c] /\ ~stopped_)
             => pc'[c] = "read_payload_lock"]_vars

\* A heading announcing exactly max_payload_size has been accepted and its
\* payload read is outstanding.
C5_Witness ==
    \E c \in Chains :
        /\ pc[c] = "payload_pending"
        /\ head[c].payload_size = max_payload_size

OutstandingReads == {c \in Chains : Outstanding(c)}

HeadingSteps == {"read_heading_lock", "read_heading_read", "heading_pending"}

\* C6: at every instant at most one socket read is outstanding, a heading
\* read is begun only when no frame is between its heading and the dispatch
\* of its payload, and the subscribers receive the messages in the order of
\* their frames.
C6_InOrder ==
    /\ Cardinality(OutstandingReads) <= 1
    /\ \A p \in Procs, c \in Chains :
           (pc[p] \in HeadingSteps /\ p # c) => pc[c] = "none"
    /\ \A h \in MessageHandlers :
           \A i, j \in DOMAIN delivered[h] :
               (/\ i < j
                /\ delivered[h][i].code = "success"
                /\ delivered[h][j].code = "success")
               => delivered[h][i].frame < delivered[h][j].frame

\* Two frames have been published to a subscriber, the second while the
\* next heading read has not begun.
C6_Witness ==
    \E h \in MessageHandlers :
        /\ Len(delivered[h]) = MaxFrames
        /\ \A i \in DOMAIN delivered[h] : delivered[h][i].code = "success"

SocketSteps ==
    {"read_heading_read", "read_payload_read", "do_send_write", "stop_close"}

InSocket == {p \in Procs : pc[p] \in SocketSteps}

\* C7: no two processes are at the same time inside a socket operation
\* (beginning a heading read, a payload read or a write, closing), and
\* whoever is inside one holds mutex_.
C7_SocketExclusive ==
    /\ Cardinality(InSocket) <= 1
    /\ \A p \in InSocket : mutex_ = p

\* stop is closing the socket while a send waits for the mutex.
C7_Witness == pc[1] = "stop_close" /\ pc[2] = "do_send_lock"

\* The messages on the wire and when each first appears.
FirstOn(w, m) == CHOOSE i \in DOMAIN w : w[i] = m /\ \A j \in 1 .. i - 1 : w[j] # m

OnWire(w) == {w[i] : i \in DOMAIN w}

\* C8: concurrent sends reach the wire one whole message after another, in
\* the order in which the sends took the mutex: the pieces of a message are
\* contiguous on the wire and the messages begin in that order.
C8_SendsAreFifo ==
    LET w == socket_.wire IN
    /\ \A i, j, k \in DOMAIN w : (i < j /\ j < k /\ w[i] = w[k]) => w[j] = w[i]
    /\ \A a, b \in OnWire(w) :
           FirstOn(w, a) < FirstOn(w, b)
           => FirstOn(hist.sendOrder, a) < FirstOn(hist.sendOrder, b)

CallbackSteps == {"start_handler", "stop_broadcast", "stop_relay", "payload_load"}

\* C9: no process holds mutex_ where it invokes a callback of the user (the
\* start handler, a message or stop subscriber, the send handler of a
\* stopped channel): the mutex is held inside the socket operations only.
C9_NoCallbackUnderLock ==
    /\ \A p \in Procs : pc[p] \in CallbackSteps => mutex_ # p
    /\ \A p \in Procs : mutex_ = p => pc[p] \in SocketSteps

\* stop is about to relay its code to a registered stop handler while
\* another process is inside a socket operation.
C9_Witness ==
    \E p \in Procs :
        /\ pc[p] = "stop_relay"
        /\ stop_subscriber_.subs # {}
        /\ mutex_ \notin {NoOwner, p}

\* ------------------------------------------------------------------------
\* Properties of the manager.
\* ------------------------------------------------------------------------

StopSteps ==
    {"stop_subscriber", "stop_relay", "stop_connections", "stop_manual",
     "stop_save", "stop_set", "stop_threadpool", "stop_handler"}

InStop == {t \in Threads : p2p_pc[t] \in StopSteps}

\* C10: of stop calls made one after another, every one calls its handler
\* exactly once; a stop begun while the manager is not stopped saves the
\* hosts and reports the result of the save, a stop begun while it is
\* stopped (a manager never started included) saves nothing and reports
\* success.
C10_StopIdempotent ==
    /\ Len(p2p_hist.log) + Cardinality(InStop) = p2p_hist.stops
    /\ \A i \in DOMAIN p2p_hist.log :
           LET r == p2p_hist.log[i] IN
           IF r.was
           THEN r.saved = "none" /\ r.code = "success"
           ELSE r.saved \in HostsCodes /\ r.code = r.saved
    /\ hosts_.saves =
           Cardinality({i \in DOMAIN p2p_hist.log : ~p2p_hist.log[i].was})
           + Cardinality({t \in InStop : p2p_hist.saved[t] # "none"})
    /\ \A t \in Threads :
           p2p_pc[t] \in {"stop_threadpool", "stop_handler"} => p2p_stopped_

\* A stop of the started manager has reported a failed save and the stop
\* after it has reported success.
C10_Witness ==
    /\ Len(p2p_hist.log) >= 2
    /\ ~p2p_hist.log[1].was
    /\ p2p_hist.log[1].code = "file_system"
    /\ p2p_hist.log[2].was
    /\ p2p_hist.log[2].code = "success"

\* C11: a start call is accepted only by a stopped manager, so that of the
\* start calls made since the manager was last stopped, those of two
\* threads at once included, at most one passes the guard and begins a
\* start sequence.
C11_OneStartSequence == p2p_hist.begun <= 1

\* The steps of a sequence, in the order the specification gives them.
Order(c) ==
    IF c \in StartChains THEN <<"manual", "load", "seed">>
                         ELSE <<"inbound", "outbound">>

\* How many steps of its sequence a chain at this position has completed.
StepsDone(l) ==
    CASE l \in {"none", "manual_starting", "inbound_starting"} -> 0
      [] l \in {"handle_manual_started", "handle_inbound_started",
                "outbound_starting"} -> 1
      [] l \in {"handle_hosts_loaded", "seeding",
                "handle_outbound_started"} -> 2
      [] l = "handle_hosts_seeded" -> 3

\* The steps a sequence has completed are the first of its order, and every
\* one but the last has succeeded; a sequence waiting for a step it has
\* begun has completed every step before it with success.
InOrder(c, l, tr) ==
    /\ Len(tr) = StepsDone(l)
    /\ \A i \in DOMAIN tr :
           /\ tr[i].step = Order(c)[i]
           /\ i < Len(tr) => tr[i].code = "success"
    /\ l \in {"seeding", "outbound_starting"} =>
           \A i \in DOMAIN tr : tr[i].code = "success"

\* The handler of the sequence in chain c is called with e after the steps
\* in tr: with success only after the last step succeeded, otherwise with
\* the error of the step that failed.
Reported(c, tr, e) ==
    IF e = "success"
    THEN /\ Len(tr) = Len(Order(c))
         /\ \A i \in DOMAIN tr : tr[i].code = "success"
    ELSE tr # <<>> /\ e = tr[Len(tr)].code

\* The handler of a start sequence that finds the manager stopped when a
\* step completes is called with service_stopped.
ReportedStopped(c, e) ==
    c \in StartChains /\ e = "service_stopped" /\ p2p_stopped_

\* One step of the manager: every sequence is in order, its handler is
\* called exactly when the sequence ends, and once; the code the handler
\* receives is that of Reported or, with orStopped, of ReportedStopped;
\* hosts are loaded and sessions attached only by the step of the sequence
\* whose turn it is.
SequenceStep(orStopped) ==
    /\ \A c \in StartChains \cup RunChains :
           LET e == IF c \in StartChains THEN p2p_startResult'
                                         ELSE p2p_runResult'
           IN
           /\ InOrder(c, p2p_pc'[c], p2p_hist'.trail[c])
           /\ p2p_hist'.handled[c] <= 1
           /\ p2p_pc'[c] # "none" => p2p_hist'.handled[c] = 0
           /\ (p2p_pc[c] # "none" /\ p2p_pc'[c] = "none") <=>
                  p2p_hist'.handled[c] = p2p_hist.handled[c] + 1
           /\ (p2p_pc[c] # "none" /\ p2p_pc'[c] = "none") =>
                  \/ Reported(c, p2p_hist.trail[c], e)
                  \/ orStopped /\ ReportedStopped(c, e)
    /\ hosts_'.loads # hosts_.loads =>
           \E c \in StartChains :
               /\ p2p_pc[c] = "handle_manual_started"
               /\ p2p_pc'[c] = "handle_hosts_loaded"
    /\ \A n \in sessions' \ sessions :
           CASE n = "manual" ->
                    \E t \in Threads : p2p_pc[t] = "start_manual"
                                       /\ p2p_pc'[t] = "start_store"
             [] n = "seed" ->
                    \E c \in StartChains : p2p_pc[c] = "handle_hosts_loaded"
                                           /\ p2p_pc'[c] = "seeding"
             [] n = "inbound" ->
                    \E c \in RunChains : p2p_pc[c] = "none"
                                         /\ p2p_pc'[c] = "inbound_starting"
             [] n = "outbound" ->
                    \E c \in RunChains :
                        /\ p2p_pc[c] = "handle_inbound_started"
                        /\ p2p_pc'[c] = "outbound_starting"

\* C12 as stated: the start sequence (manual session, host load, seed
\* session) and the run sequence (inbound session, outbound session) take
\* their steps in that order, each step begun only after the one before it
\* completed with success; the handler of a sequence is called exactly
\* once, with success only after the last step succeeded and otherwise with
\* the error of the first failing step, and no step is begun after it;
\* start attaches no inbound and no outbound session.
C12_FirstFailingStep == [][SequenceStep(FALSE)]_vars

\* C12, amended: as above, except that the handler of a start sequence
\* which finds the manager stopped when one of its steps completes is
\* called with service_stopped, whether or not that step failed.
C12_SequenceOrder == [][SequenceStep(TRUE)]_vars

\* A start sequence and a run sequence have both reported success, and a
\* start sequence begun later has completed its host load with a failure.
C12_Witness ==
    /\ p2p_startResult = "success"
    /\ p2p_runResult = "success"
    /\ sessions = {"manual", "seed", "inbound", "outbound"}
    /\ \E c \in StartChains :
           /\ p2p_pc[c] = "handle_hosts_loaded"
           /\ p2p_hist.trail[c] =
                  <<Done("manual", "success"), Done("load", "file_system")>>

\* The store call s takes a step.
StoreStep(s) == p2p_pc'[s] # p2p_pc[s]

\* C13: the connections set never holds two channels of one remote
\* endpoint; a store of a channel whose endpoint is present leaves the set
\* as it is, hands address_in_use to the handler of the store call and
\* notifies no connection subscriber, however store and remove calls are
\* interleaved.
C13_OnePerEndpoint ==
    [][/\ \A j, k \in connections_'.channels :
              Authority(j) = Authority(k) => j = k
       /\ \A s \in StoreCalls :
              /\ (/\ p2p_pc[s] = "store_pending"
                  /\ StoreStep(s)
                  /\ SameEndpoint(p2p_chan[s]) # {}) =>
                     /\ connections_' = connections_
                     /\ p2p_ec'[s] = "address_in_use"
              /\ (p2p_pc[s] = "handle_new_connection" /\ StoreStep(s)) =>
                     storeResult'[s] = p2p_ec[s]
              /\ (/\ p2p_pc[s] = "new_connection_relay"
                  /\ StoreStep(s)
                  /\ storeResult[s] = "address_in_use") =>
                     /\ connections_' = connections_
                     /\ connectNotified' = connectNotified
                     /\ subscriber_' = subscriber_
     ]_vars

\* The handler of a store of k1 has been given address_in_use while the
\* set holds k2, a channel of the same endpoint, and a subscriber waits.
C13_Witness ==
    \E s \in StoreCalls :
        /\ p2p_pc[s] = "new_connection_relay"
        /\ p2p_chan[s] = "k1"
        /\ storeResult[s] = "address_in_use"
        /\ "k2" \in connections_.channels
        /\ subscriber_.subs # {}

\* C14: a connection subscriber is handed success only by the last step of
\* a store call whose channel the set has stored, whose result handler has
\* already been given success and whose notify() is true, and it is handed
\* it once; the other store calls notify nobody.
C14_RelayAfterStore ==
    [][\A h \in ConnectHandlers :
           connectNotified'[h] # connectNotified[h] =>
               \/ /\ connectNotified'[h] =
                         Append(connectNotified[h], "service_stopped")
                  /\ \A s \in StoreCalls : ~StoreStep(s)
               \/ /\ connectNotified'[h] = Append(connectNotified[h], "success")
                  /\ h \in subscriber_.subs
                  /\ h \notin subscriber_'.subs
                  /\ \E s \in StoreCalls :
                         /\ p2p_pc[s] = "new_connection_relay"
                         /\ p2p_pc'[s] = "none"
                         /\ p2p_ec[s] = "success"
                         /\ storeResult[s] = "success"
                         /\ ChannelNotify(p2p_chan[s])
     ]_vars

\* A subscriber has been handed success for a channel while another store
\* call, of a channel that asks for no notification, has been given
\* success by the set and is about to return.
C14_Witness ==
    /\ \E h \in ConnectHandlers : connectNotified[h] = <<"success">>
    /\ \E s \in StoreCalls :
           /\ p2p_pc[s] = "new_connection_relay"
           /\ storeResult[s] = "success"
           /\ ~ChannelNotify(p2p_chan[s])

\* C15: a connect that finds the manager not stopped hands its request to
\* the manual session, however it is interleaved with start and stop: no
\* connect passes the stopped test and then, with the manager still not
\* stopped, finds no manual session to hand the request to.
C15_ConnectHandedOver == ~p2p_hist.dropped

\* C16: a stop cascades to the run sequence: no inbound and no outbound
\* session is attached while the manager is stopped, whether run is called
\* on a stopped manager or the manager is stopped while a run sequence is
\* in flight.
C16_StopCascadesToRun == ~p2p_hist.lateAttach

\* The positions at which a completion handler of the start sequence runs.
StartCompletions ==
    {"handle_manual_started", "handle_hosts_loaded", "handle_hosts_seeded"}

\* C17: a completion handler of the start sequence (manual session started,
\* hosts loaded, hosts seeded) that finds the manager stopped calls the
\* start handler with service_stopped, whatever the step reported, and
\* ends the sequence: it loads no hosts and attaches no session.
C17_StoppedStartReports ==
    [][\A c \in StartChains :
           (/\ p2p_pc[c] \in StartCompletions
            /\ p2p_pc'[c] # p2p_pc[c]
            /\ p2p_stopped_) =>
               /\ p2p_startResult' = "service_stopped"
               /\ p2p_hist'.handled[c] = p2p_hist.handled[c] + 1
               /\ p2p_pc'[c] = "none"
               /\ hosts_' = hosts_
               /\ sessions' = sessions
     ]_vars

\* The manager was stopped while the hosts were being loaded: the load has
\* been made, whatever it reported the start handler was given
\* service_stopped, and no seed session was attached.
C17_Witness ==
    /\ p2p_stopped_
    /\ p2p_startResult = "service_stopped"
    /\ hosts_.loads = 1
    /\ "seed" \notin sessions
    /\ \A c \in StartChains : p2p_pc[c] = "none"

\* The steps of stop, in the order the specification gives them.
StopOrder ==
    <<"stop_subscriber", "stop_relay", "stop_connections", "stop_manual",
      "stop_save", "stop_set", "stop_threadpool", "stop_handler">>

\* The number of steps a stop call at position l has performed.
StopsDone(l) == (CHOOSE i \in DOMAIN StopOrder : StopOrder[i] = l) - 1

\* C18: a stop call performs its steps in this order, all before it
\* returns: stop the connection subscriber, relay service_stopped to its
\* subscribers, stop the connections set, clear the manual session, save
\* the hosts if the manager was not stopped, set the stopped flag, shut the
\* thread pool down, call the handler. At every position of a stop call
\* the steps before it have taken effect, and, in a stop of a started
\* manager, the steps from it on have not.
C18_StopOrder ==
    /\ Len(p2p_hist.log) + Cardinality(InStop) = p2p_hist.stops
    /\ \A t \in InStop :
           LET n == StopsDone(p2p_pc[t])
               running == ~p2p_hist.was[t]
           IN
           /\ n >= 1 => subscriber_.stopped
           /\ n >= 2 => subscriber_.subs = {}
           /\ n >= 3 => connections_.stopped
           /\ n >= 4 => manual_ = "nullptr"
           /\ n >= 5 => (p2p_hist.saved[t] # "none" <=> running)
           /\ n >= 6 => p2p_stopped_
           /\ n >= 7 => threadpool_ = "shutdown"
           /\ (running /\ n < 1) => ~subscriber_.stopped
           /\ (running /\ n < 4) => manual_ = "manual"
           /\ (running /\ n < 5) => p2p_hist.saved[t] = "none"
           /\ (running /\ n < 6) => ~p2p_stopped_
           /\ (running /\ n < 7) => threadpool_ = "spawned"

\* A stop of a started manager with a subscriber has relayed
\* service_stopped to it, cleared the manual session and saved the hosts,
\* and has not yet set the stopped flag.
C18_Witness ==
    /\ p2p_pc[1] = "stop_set"
    /\ ~p2p_hist.was[1]
    /\ p2p_hist.saved[1] # "none"
    /\ ~p2p_stopped_
    /\ \E h \in ConnectHandlers : connectNotified[h] = <<"service_stopped">>

\* C19: stop calls that run concurrently on a started manager save the
\* hosts once between them: the hosts are saved at most once for every
\* start of the manager.
C19_StopsSaveOnce == p2p_hist.runSaves <= 1

\* The positions of a process inside proxy::stop.
ChannelStopSteps ==
    {"stop_check", "stop_set", "stop_message_subscriber", "stop_broadcast",
     "stop_stop_subscriber", "stop_relay", "stop_lock", "stop_close"}

\* C20: when a payload read has completed on a running channel and the
\* checksum of the payload is not the one its heading announced, the
\* handler calls stop(bad_stream) and returns: the payload is not handed
\* to the message subscribers (only a payload whose checksum matches
\* reaches load), and when the stop call returns the channel is stopped
\* and the read cycle is over, with no further heading read.
C20_ChecksumMismatch ==
    [][\A c \in Chains :
          /\ (/\ pc[c] = "handle_read_payload"
              /\ pc'[c] # pc[c]
              /\ ~stopped_
              /\ head[c].checksum # bitcoin_checksum(payload[c]))
             => /\ pc'[c] = "stop_check"
                /\ code'[c] = "bad_stream"
                /\ ret'[c] = "none"
                /\ delivered' = delivered
          /\ pc'[c] \in {"payload_load", "payload_loaded"}
             => head'[c].checksum = bitcoin_checksum(payload'[c])
          /\ (/\ pc[c] \in ChannelStopSteps
              /\ ret[c] = "none"
              /\ pc'[c] # pc[c])
             => /\ pc'[c] \in ChannelStopSteps \cup {"none"}
                /\ pc'[c] \in ChannelStopSteps => ret'[c] = "none"
                /\ pc'[c] = "none" => stopped_'
     ]_vars

\* The payload of the second frame has been read without error on a
\* running channel that has published the first frame, and its checksum
\* is not the one the heading announced.
C20_Witness ==
    \E c \in Chains :
        /\ pc[c] = "handle_read_payload"
        /\ ~stopped_
        /\ ec[c] = "success"
        /\ frame[c] = 2
        /\ head[c].checksum # bitcoin_checksum(payload[c])
        /\ \E h \in MessageHandlers : Len(delivered[h]) = 1

\* ------------------------------------------------------------------------
\* C21
\* ------------------------------------------------------------------------

\* The stop call that handle_read_payload makes for a parse failure is the
\* only one that returns into read_heading.
ParseStop(c) == pc[c] \in ChannelStopSteps /\ ret[c] = "read_heading"

\* After the parse stop the handler falls through to read_heading, which
\* finds the channel stopped and initiates no read.
NoReadAfterParseStop(c) ==
    /\ (ParseStop(c) /\ pc'[c] # pc[c])
       => /\ pc'[c] \in ChannelStopSteps \cup {"read_heading"}
          /\ pc'[c] = "read_heading" => stopped_'
    /\ (pc[c] = "read_heading" /\ stopped_)
       => /\ stopped_'
          /\ pc'[c] \in {"read_heading", "none"}

\* C21 as stated: whenever a payload with a valid checksum fails to parse on
\* a running channel, the handler stops the channel with the parse error,
\* the parse error is the one code relayed to the stop subscribers when that
\* stop call returns, and no further heading read is initiated.
C21_ParseErrorRelayed ==
    [][\A c \in Chains :
          /\ (/\ pc[c] = "payload_loaded"
              /\ pc'[c] # pc[c]
              /\ ~stopped_
              /\ parse_error[c] # "success")
             => /\ pc'[c] = "stop_check"
                /\ code'[c] = parse_error[c]
          /\ (ParseStop(c) /\ pc'[c] = "read_heading")
             => hist'.relays = <<code[c]>>
          /\ NoReadAfterParseStop(c)
     ]_vars

\* C21 amended: whenever a payload that was read without error and has a
\* valid checksum fails to parse on a running channel, the handler calls
\* stop with the parse error, and if the payload read reported an error it
\* calls stop with that error instead; the code of the call is kept through
\* the stop sequence, and if the call runs the sequence the stop subscribers
\* are relayed that code; the handler then enters read_heading, which finds
\* the channel stopped and initiates no further heading read.
C21_ParseErrorStops ==
    [][\A c \in Chains :
          /\ (/\ pc[c] = "payload_loaded"
              /\ pc'[c] # pc[c]
              /\ ~stopped_
              /\ parse_error[c] # "success")
             => /\ pc'[c] = "stop_check"
                /\ head[c].checksum = bitcoin_checksum(payload[c])
                /\ IF ec[c] = "success"
                   THEN code'[c] = parse_error[c] /\ ret'[c] = "read_heading"
                   ELSE code'[c] = ec[c] /\ ret'[c] = "none"
          /\ (ParseStop(c) /\ pc'[c] \in ChannelStopSteps)
             => code'[c] = code[c] /\ ret'[c] = ret[c]
          /\ (ParseStop(c) /\ pc[c] = "stop_relay" /\ pc'[c] # pc[c])
             => /\ hist'.relays = Append(hist.relays, code[c])
                /\ \A h \in stop_subscriber_.subs :
                       stopNotified'[h] = Append(stopNotified[h], code[c])
          /\ NoReadAfterParseStop(c)
     ]_vars

\* The payload of a frame was read without error, its checksum is valid,
\* it failed to parse, and the handler has called stop with the parse error
\* on a channel that has a stop subscriber.
C21_Witness ==
    \E c \in Chains :
        /\ pc[c] = "stop_check"
        /\ ret[c] = "read_heading"
        /\ code[c] = "bad_stream"
        /\ ~stopped_
        /\ stop_subscriber_.subs # {}

\* ------------------------------------------------------------------------
\* C23
\* ------------------------------------------------------------------------

\* No read has been initiated on the channel yet.
NoReadYet == nextFrame = 1 /\ \A c \in Chains : pc[c] = "none"

\* C23: a successful start starts the stop subscriber, then the message
\* subscriber, then invokes the start handler with success, and only then
\* initiates the first heading read; the handler is given success nowhere
\* else.  A subscription registered inside the start handler is refused
\* only if the channel has been stopped again, stays registered until a stop
\* broadcasts to it, and receives the first message published on the
\* channel as its first notification.
C23_SubscribeBeforeFirstRead ==
    [][/\ \A t \in Threads :
          /\ (pc[t] = "start_stop_subscriber" /\ pc'[t] # pc[t])
             => /\ ~stop_subscriber_'.stopped
                /\ pc'[t] = "start_message_subscriber"
                /\ startResult'[t] = startResult[t]
          /\ (pc[t] = "start_message_subscriber" /\ pc'[t] # pc[t])
             => /\ ~message_subscriber_'.stopped
                /\ pc'[t] = "start_handler"
                /\ startResult'[t] = startResult[t]
          /\ (pc[t] = "start_handler" /\ pc'[t] # pc[t])
             => /\ NoReadYet /\ NoReadYet'
                /\ startResult'[t] = "success"
                /\ pc'[t] = "read_heading"
                /\ \A h \in MessageHandlers :
                       delivered'[h] # delivered[h]
                       => /\ stopped_
                          /\ message_subscriber_.stopped
                          /\ delivered'[h] = <<Delivery("channel_stopped", 0)>>
          /\ (startResult'[t] = "success" /\ startResult[t] # "success")
             => pc[t] = "start_handler"
       /\ (NoReadYet /\ ~NoReadYet')
          => \E t \in Threads :
                 /\ pc[t] = "read_heading_read"
                 /\ pc'[t] = "idle"
                 /\ startResult[t] = "success"
       /\ \A h \in MessageHandlers :
              (h \in message_subscriber_.subs
                   /\ h \notin message_subscriber_'.subs)
              => \E p \in Procs : pc[p] = "stop_broadcast" /\ pc'[p] # pc[p]
       /\ \A c \in Chains :
              (/\ pc[c] = "payload_load"
               /\ pc'[c] # pc[c]
               /\ frame[c] = 1
               /\ parse_error'[c] = "success")
              => \A h \in message_subscriber_.subs :
                     delivered'[h] = <<Delivery("success", 1)>>
     ]_vars

\* The start handler subscribed to the channel's messages, start returned
\* after it had initiated the first read, and the first message of the
\* channel has been delivered to that subscription.
C23_Witness ==
    /\ startResult[1] = "success"
    /\ pc[1] = "idle"
    /\ \E h \in MessageHandlers :
           /\ h \in message_subscriber_.subs
           /\ delivered[h] = <<Delivery("success", 1)>>

\* ------------------------------------------------------------------------
\* C22
\* ------------------------------------------------------------------------

\* The completion handler of a read is about to run.
ReadHandlers == {"handle_read_heading", "handle_read_payload"}

\* No read is outstanding and no read cycle is left on the channel.
NoReadCycle == \A c \in Chains : pc[c] = "none"

====
